---------------------------- MODULE Spec2Model ----------------------------
(***************************************************************************)
(* Met Office deterministic STAC metadata: the path classifier            *)
(* (href.py, constants.py) and the item assembler (stac.py).               *)
(*                                                                         *)
(* A Python str is modelled as a sequence of tokens.  The characters the   *)
(* program's regular expressions and string operations tell apart are      *)
(* tokens of their own: "/", "-", ":", "." and the newline.  Every maximal *)
(* run of other characters is one word token, so                           *)
(*   "uk-deterministic-2km/x.nc"                                           *)
(* is <<"uk", "-", "deterministic", "-", "2km", "/", "x", ".", "nc">>.     *)
(* The two tests that look inside a word (startswith("PT") and the         *)
(* pattern PT[\dHM]+) are tables over the words the model uses.            *)
(***************************************************************************)
EXTENDS Integers, Sequences, FiniteSets, TLC

VARIABLES
    href,        \* Href.parse argument `href`
    model,       \* Href.parse argument `model` (None or a Model)
    theme,       \* Href.parse argument `theme` (None or a Theme)
    parsed,      \* outcome of Href.parse(href, model, theme)
    prop,        \* outcome of the last property read on the parsed Href
    collected,   \* outcome of _collect_assets on a listing that holds `href`
    pages,       \* what obstore.list yields: pages of listing entries
    created,     \* outcome of create_item / create_items_for_reference_time
    cli          \* the app create_cli_app builds, and the command that ran

vars ==
    <<href, model, theme, parsed, prop, collected, pages, created, cli>>

----------------------------------------------------------------------------
(* Bounds of the model *)

\* directory levels in front of the collection segment, beyond the bucket
MaxPrefixDirs == 1

\* entries of a listing, over all of its pages
MaxEntries == 3

----------------------------------------------------------------------------
(* Strings *)

SLASH == "/"
DASH == "-"
COLON == ":"
DOT == "."
NL == "\n"

\* Python's None; no token of a path is spelled like this
None == <<"<None>">>

Min(S) == CHOOSE x \in S : \A y \in S : x <= y
Max(S) == CHOOSE x \in S : \A y \in S : x >= y

\* least index k >= i with s[k] = t, or 0 when there is none
Find(s, t, i) ==
    LET ks == {k \in i..Len(s) : s[k] = t}
    IN  IF ks = {} THEN 0 ELSE Min(ks)

Has(s, t) == \E k \in 1..Len(s) : s[k] = t

\* number of occurrences of token t in s
Count(s, t) == Cardinality({k \in 1..Len(s) : s[k] = t})

\* words that start with the characters PT
PTWords ==
    {"PT01H", "PT03H", "PT06H", "PT0001H00M", "PT0002H00M", "PT", "PTfoo"}

\* words that match PT[\dHM]+ in full
DurationWords == {"PT01H", "PT03H", "PT06H", "PT0001H00M", "PT0002H00M"}

\* str.startswith("PT")
StartsWithPT(s) == Len(s) >= 1 /\ s[1] \in PTWords

\* str.split("-")
RECURSIVE split(_)
split(s) ==
    LET k == Find(s, DASH, 1)
    IN  IF k = 0 THEN <<s>>
        ELSE <<SubSeq(s, 1, k - 1)>> \o split(SubSeq(s, k + 1, Len(s)))

----------------------------------------------------------------------------
(* Regular expressions *)

NoMatch == [matched |-> FALSE]

\* EndBeforeNc with the suffix optional: a path without .nc ends where it ends
EndBeforeNc_optional(s) ==
    LET n == Len(s)
    IN  IF n >= 2 /\ s[n - 1] = DOT /\ s[n] = "nc" THEN n - 2
        ELSE IF n >= 3 /\ s[n] = NL /\ s[n - 2] = DOT /\ s[n - 1] = "nc"
             THEN n - 3
        ELSE n

\* `\.nc$`: index of the last token in front of it, or -1.  `$` matches at
\* the end of the string and in front of a newline that ends the string.
EndBeforeNc(s) ==
    LET n == Len(s)
    IN  IF n >= 2 /\ s[n - 1] = DOT /\ s[n] = "nc" THEN n - 2
        ELSE IF n >= 3 /\ s[n] = NL /\ s[n - 2] = DOT /\ s[n - 1] = "nc"
             THEN n - 3
        ELSE -1

\* href.py PATH_REGEX behind `^.*/`, the `/` being s[p].  Each of the four
\* negated classes runs to the first separator behind it; `.` matches no
\* newline.
PATH_REGEX_from(s, p) ==
    LET q == Find(s, SLASH, p + 1)
        r == IF q > p + 1 THEN Find(s, SLASH, q + 1) ELSE 0
        a == IF r > q + 1 THEN Find(s, DASH, r + 1) ELSE 0
        b == IF a > r + 1 THEN Find(s, DASH, a + 1) ELSE 0
        e == EndBeforeNc(s)
    IN  IF /\ q > p + 1
           /\ r > q + 1
           /\ a > r + 1
           /\ b > a + 1
           /\ e >= b + 1
           /\ ~Has(SubSeq(s, b + 1, e), NL)
        THEN [matched |-> TRUE,
              collection |-> SubSeq(s, p + 1, q - 1),
              reference_datetime |-> SubSeq(s, q + 1, r - 1),
              valid_datetime |-> SubSeq(s, r + 1, a - 1),
              forecast_horizon |-> SubSeq(s, a + 1, b - 1),
              parameter |-> SubSeq(s, b + 1, e)]
        ELSE NoMatch

\* PATH_REGEX.match(s): `.*` is greedy, so the match is the one whose `/`
\* in front of the collection is the rightmost that lets the rest match.
PATH_REGEX_match(s) ==
    LET ps == {p \in 1..Len(s) :
                  /\ s[p] = SLASH
                  /\ ~Has(SubSeq(s, 1, p - 1), NL)
                  /\ PATH_REGEX_from(s, p).matched}
    IN  IF ps = {} THEN NoMatch ELSE PATH_REGEX_from(s, Max(ps))

\* stac.py PATH_PATTERN from the collection group on, which starts at s[c].
\* `.+?` is lazy and the duration group optional, so a last word matching
\* PT[\dHM]+ behind a "-" is the duration whenever a variable is left.
PATH_PATTERN_from(s, c, protocol, bucket) ==
    LET q == Find(s, SLASH, c)
        r == IF q > c THEN Find(s, SLASH, q + 1) ELSE 0
        a == IF r > q + 1 THEN Find(s, DASH, r + 1) ELSE 0
        b == IF a > r + 1 THEN Find(s, DASH, a + 1) ELSE 0
        e == EndBeforeNc(s)
        d == /\ e - 2 >= b + 1
             /\ s[e - 1] = DASH
             /\ s[e] \in DurationWords
    IN  IF /\ q > c
           /\ r > q + 1
           /\ a > r + 1
           /\ b > a + 1
           /\ e >= b + 1
           /\ ~Has(SubSeq(s, b + 1, e), NL)
        THEN [matched |-> TRUE,
              protocol |-> protocol,
              bucket |-> bucket,
              collection |-> SubSeq(s, c, q - 1),
              reference_time |-> SubSeq(s, q + 1, r - 1),
              valid_time |-> SubSeq(s, r + 1, a - 1),
              forecast_horizon |-> SubSeq(s, a + 1, b - 1),
              variable |-> IF d THEN SubSeq(s, b + 1, e - 2)
                           ELSE SubSeq(s, b + 1, e),
              duration |-> IF d THEN <<s[e]>> ELSE None]
        ELSE NoMatch

\* PATH_PATTERN without the optional `<protocol>://<bucket>/` group
PATH_PATTERN_match_bare(s) == PATH_PATTERN_from(s, 1, None, None)

\* re.match(PATH_PATTERN, s): first with the optional
\* `<protocol>://<bucket>/` group, then without it.
PATH_PATTERN_match(s) ==
    LET c == Find(s, COLON, 1)
        k == IF c > 1 /\ Len(s) >= c + 2 /\ s[c + 1] = SLASH /\ s[c + 2] = SLASH
             THEN Find(s, SLASH, c + 3) ELSE 0
        with == IF k > c + 3
                THEN PATH_PATTERN_from(s, k + 1, SubSeq(s, 1, c - 1),
                                       SubSeq(s, c + 3, k - 1))
                ELSE NoMatch
    IN  IF with.matched THEN with ELSE PATH_PATTERN_from(s, 1, None, None)

----------------------------------------------------------------------------
(* Outcomes of a call *)

Return(v) == [kind |-> "return", value |-> v]
Raise(exc, msg) == [kind |-> "raise", exc |-> exc, msg |-> msg]
NotCalled == [kind |-> "not called"]

\* the first case of a match statement whose patterns hold the subject, or 0
MatchCase(cases, subject) ==
    LET is == {i \in 1..Len(cases) : subject \in cases[i].patterns}
    IN  IF is = {} THEN 0 ELSE Min(is)

----------------------------------------------------------------------------
(* constants.py *)

Model_global == <<"global">>
Model_uk == <<"uk">>
Model == {Model_global, Model_uk}

Theme_height == <<"height">>
Theme_pressure_level == <<"pressure", "-", "level">>
Theme_near_surface == <<"near", "-", "surface">>
Theme_whole_atmosphere == <<"whole", "-", "atmosphere">>
Theme == {Theme_height, Theme_pressure_level, Theme_near_surface,
          Theme_whole_atmosphere}

\* Model.get_collection_id
get_collection_id(self, t) ==
    <<"met", "-", "office", "-">> \o self \o <<"-", "deterministic", "-">> \o t

\* HeightParameters with a name of the near-surface list copied into it
HeightParameters_overlap ==
    { <<"cloud_amount_on_height_levels">>,
      <<"temperature_on_height_levels">>,
      <<"wind_direction_on_height_levels">>,
      <<"wind_speed_on_height_levels">>,
      <<"temperature_at_screen_level">> }

HeightParameters ==
    { <<"cloud_amount_on_height_levels">>,
      <<"temperature_on_height_levels">>,
      <<"wind_direction_on_height_levels">>,
      <<"wind_speed_on_height_levels">> }

NearSurfaceParameters ==
    { <<"fog_fraction_at_screen_level">>,
      <<"visibility_at_screen_level">>,
      <<"pressure_at_mean_sea_level">>,
      <<"pressure_at_surface">>,
      <<"precipitation_rate">>,
      <<"precipitation_accumulation", "-", "PT01H">>,
      <<"precipitation_accumulation", "-", "PT03H">>,
      <<"precipitation_accumulation", "-", "PT06H">>,
      <<"rainfall_accumulation", "-", "PT01H">>,
      <<"rainfall_accumulation", "-", "PT03H">>,
      <<"rainfall_accumulation", "-", "PT06H">>,
      <<"rainfall_rate">>,
      <<"rainfall_rate_from_convection">>,
      <<"rainfall_rate_from_convection_max", "-", "PT01H">>,
      <<"rainfall_rate_from_convection_max", "-", "PT03H">>,
      <<"rainfall_rate_from_convection_max", "-", "PT06H">>,
      <<"radiation_flux_in_uv_downward_at_surface">>,
      <<"radiation_flux_in_longwave_downward_at_surface">>,
      <<"radiation_flux_in_shortwave_direct_downward_at_surface">>,
      <<"radiation_flux_in_shortwave_total_downward_at_surface">>,
      <<"radiation_flux_in_shortwave_diffuse_downward_at_surface">>,
      <<"snow_depth_water_equivalent">>,
      <<"snowfall_rate">>,
      <<"snowfall_accumulation", "-", "PT01H">>,
      <<"snowfall_accumulation", "-", "PT03H">>,
      <<"snowfall_rate_from_convection">>,
      <<"snowfall_rate_from_convection_mean", "-", "PT01H">>,
      <<"snowfall_rate_from_convection_mean", "-", "PT03H">>,
      <<"snowfall_rate_from_convection_mean", "-", "PT06H">>,
      <<"snowfall_rate_from_convection_max", "-", "PT01H">>,
      <<"snowfall_rate_from_convection_max", "-", "PT03H">>,
      <<"snowfall_rate_from_convection_max", "-", "PT06H">>,
      <<"hail_fall_rate">>,
      <<"hail_fall_accumulation", "-", "PT01H">>,
      <<"temperature_at_screen_level">>,
      <<"temperature_at_surface">>,
      <<"temperature_at_screen_level_max", "-", "PT01H">>,
      <<"temperature_at_screen_level_max", "-", "PT03H">>,
      <<"temperature_at_screen_level_max", "-", "PT06H">>,
      <<"temperature_at_screen_level_min", "-", "PT01H">>,
      <<"temperature_at_screen_level_min", "-", "PT03H">>,
      <<"temperature_at_screen_level_min", "-", "PT06H">>,
      <<"temperature_of_dew_point_at_screen_level">>,
      <<"wind_direction_at_10m">>,
      <<"wind_speed_at_10m">>,
      <<"wind_gust_at_10m">>,
      <<"wind_gust_at_10m_max", "-", "PT01H">>,
      <<"wind_gust_at_10m_max", "-", "PT03H">>,
      <<"wind_gust_at_10m_max", "-", "PT06H">>,
      <<"sensible_heat_flux_at_surface">>,
      <<"latent_heat_flux_at_surface_mean", "-", "PT01H">>,
      <<"latent_heat_flux_at_surface_mean", "-", "PT03H">>,
      <<"latent_heat_flux_at_surface_mean", "-", "PT06H">>,
      <<"relative_humidity_at_screen_level">>,
      <<"landsea_mask">> }

PressureLevelParameters ==
    { <<"height_ASL_on_pressure_levels">>,
      <<"temperature_on_pressure_levels">>,
      <<"wet_bulb_potential_temperature_on_pressure_levels">>,
      <<"wind_speed_on_pressure_levels">>,
      <<"wind_direction_on_pressure_levels">>,
      <<"wind_vertical_velocity_on_pressure_levels">>,
      <<"relative_humidity_on_pressure_levels">> }

\* the names of the whole-atmosphere case without the lightning flashes
WholeAtmosphereParameters_no_lightning ==
    { <<"cloud_amount_of_total_cloud">>,
      <<"cloud_amount_of_high_cloud">>,
      <<"cloud_amount_of_medium_cloud">>,
      <<"cloud_amount_of_low_cloud">>,
      <<"cloud_amount_below_1000ft_ASL">>,
      <<"height_AGL_at_cloud_base_where_cloud_cover_2p5_oktas">>,
      <<"cloud_amount_of_total_convective_cloud">>,
      <<"pressure_at_tropopause">>,
      <<"temperature_at_tropopause">>,
      <<"CAPE_most_unstable_below_500hPa">>,
      <<"CAPE_surface">>,
      <<"CAPE_mixed_layer_lowest_500m">>,
      <<"CIN_surface">>,
      <<"CIN_mixed_layer_lowest_500m">>,
      <<"CIN_most_unstable_below_500hPa">>,
      <<"height_AGL_at_wet_bulb_freezing_level">>,
      <<"height_AGL_at_freezing_level">> }

WholeAtmosphereParameters ==
    { <<"cloud_amount_of_total_cloud">>,
      <<"cloud_amount_of_high_cloud">>,
      <<"cloud_amount_of_medium_cloud">>,
      <<"cloud_amount_of_low_cloud">>,
      <<"cloud_amount_below_1000ft_ASL">>,
      <<"height_AGL_at_cloud_base_where_cloud_cover_2p5_oktas">>,
      <<"cloud_amount_of_total_convective_cloud">>,
      <<"pressure_at_tropopause">>,
      <<"lightning_flash_accumulation", "-", "PT01H">>,
      <<"temperature_at_tropopause">>,
      <<"CAPE_most_unstable_below_500hPa">>,
      <<"CAPE_surface">>,
      <<"CAPE_mixed_layer_lowest_500m">>,
      <<"CIN_surface">>,
      <<"CIN_mixed_layer_lowest_500m">>,
      <<"CIN_most_unstable_below_500hPa">>,
      <<"height_AGL_at_wet_bulb_freezing_level">>,
      <<"height_AGL_at_freezing_level">> }

\* the cases of Theme.from_parameter, in the order the match tests them
from_parameter_cases ==
    << [patterns |-> HeightParameters, value |-> Theme_height],
       [patterns |-> NearSurfaceParameters, value |-> Theme_near_surface],
       [patterns |-> PressureLevelParameters, value |-> Theme_pressure_level],
       [patterns |-> WholeAtmosphereParameters,
        value |-> Theme_whole_atmosphere] >>

\* from_parameter with a default theme in place of the error
from_parameter_default(parameter) ==
    LET i == MatchCase(from_parameter_cases, parameter)
    IN  IF i = 0 THEN Return(Theme_near_surface)
        ELSE Return(from_parameter_cases[i].value)

\* Theme.from_parameter
from_parameter(parameter) ==
    LET i == MatchCase(from_parameter_cases, parameter)
    IN  IF i = 0 THEN Raise("ValueError", "Unknown parameter")
        ELSE Return(from_parameter_cases[i].value)

\* the keys of ITEM_ASSETS[Model.global_][Theme.height]
ITEM_ASSETS_global_height ==
    { <<"cloud_amount_on_height_levels">> }

\* the keys of ITEM_ASSETS[Model.global_][Theme.near_surface]
ITEM_ASSETS_global_near_surface ==
    { <<"fog_fraction_at_screen_level">>,
      <<"latent_heat_flux_at_surface_mean", "-", "PT01H">>,
      <<"latent_heat_flux_at_surface_mean", "-", "PT03H">>,
      <<"latent_heat_flux_at_surface_mean", "-", "PT06H">>,
      <<"precipitation_accumulation", "-", "PT01H">>,
      <<"precipitation_accumulation", "-", "PT03H">>,
      <<"precipitation_accumulation", "-", "PT06H">>,
      <<"precipitation_rate">>,
      <<"pressure_at_mean_sea_level">>,
      <<"radiation_flux_in_longwave_downward_at_surface">>,
      <<"radiation_flux_in_shortwave_direct_downward_at_surface">>,
      <<"radiation_flux_in_shortwave_total_downward_at_surface">>,
      <<"radiation_flux_in_uv_downward_at_surface">>,
      <<"rainfall_accumulation", "-", "PT01H">>,
      <<"rainfall_accumulation", "-", "PT03H">>,
      <<"rainfall_accumulation", "-", "PT06H">>,
      <<"rainfall_rate">>,
      <<"rainfall_rate_from_convection">>,
      <<"rainfall_rate_from_convection_max", "-", "PT01H">>,
      <<"rainfall_rate_from_convection_max", "-", "PT03H">>,
      <<"rainfall_rate_from_convection_max", "-", "PT06H">>,
      <<"relative_humidity_at_screen_level">>,
      <<"snow_depth_water_equivalent">>,
      <<"snowfall_rate">>,
      <<"snowfall_rate_from_convection">>,
      <<"snowfall_rate_from_convection_max", "-", "PT01H">>,
      <<"snowfall_rate_from_convection_max", "-", "PT03H">>,
      <<"snowfall_rate_from_convection_max", "-", "PT06H">>,
      <<"snowfall_rate_from_convection_mean", "-", "PT01H">>,
      <<"snowfall_rate_from_convection_mean", "-", "PT03H">>,
      <<"snowfall_rate_from_convection_mean", "-", "PT06H">>,
      <<"temperature_at_screen_level">>,
      <<"temperature_at_screen_level_max", "-", "PT01H">>,
      <<"temperature_at_screen_level_max", "-", "PT03H">>,
      <<"temperature_at_screen_level_max", "-", "PT06H">>,
      <<"temperature_at_screen_level_min", "-", "PT01H">>,
      <<"temperature_at_screen_level_min", "-", "PT03H">>,
      <<"temperature_at_screen_level_min", "-", "PT06H">>,
      <<"temperature_at_surface">>,
      <<"temperature_of_dew_point_at_screen_level">>,
      <<"visibility_at_screen_level">>,
      <<"wind_direction_at_10m">>,
      <<"wind_gust_at_10m">>,
      <<"wind_gust_at_10m_max", "-", "PT01H">>,
      <<"wind_gust_at_10m_max", "-", "PT03H">>,
      <<"wind_gust_at_10m_max", "-", "PT06H">>,
      <<"wind_speed_at_10m">> }

\* the keys of ITEM_ASSETS[Model.global_][Theme.pressure_level]
ITEM_ASSETS_global_pressure_level ==
    { <<"height_ASL_on_pressure_levels">>,
      <<"relative_humidity_on_pressure_levels">>,
      <<"temperature_on_pressure_levels">>,
      <<"wet_bulb_potential_temperature_on_pressure_levels">>,
      <<"wind_direction_on_pressure_levels">>,
      <<"wind_speed_on_pressure_levels">>,
      <<"wind_vertical_velocity_on_pressure_levels">> }

\* the keys of ITEM_ASSETS[Model.global_][Theme.whole_atmosphere]
ITEM_ASSETS_global_whole_atmosphere ==
    { <<"CAPE_mixed_layer_lowest_500m">>,
      <<"CAPE_most_unstable_below_500hPa">>,
      <<"CAPE_surface">>,
      <<"CIN_mixed_layer_lowest_500m">>,
      <<"CIN_most_unstable_below_500hPa">>,
      <<"CIN_surface">>,
      <<"cloud_amount_below_1000ft_ASL">>,
      <<"cloud_amount_of_high_cloud">>,
      <<"cloud_amount_of_low_cloud">>,
      <<"cloud_amount_of_medium_cloud">>,
      <<"cloud_amount_of_total_cloud">>,
      <<"cloud_amount_of_total_convective_cloud">>,
      <<"pressure_at_tropopause">>,
      <<"temperature_at_tropopause">> }

\* the keys of ITEM_ASSETS[Model.uk][Theme.height]
ITEM_ASSETS_uk_height ==
    { <<"cloud_amount_on_height_levels">>,
      <<"temperature_on_height_levels">>,
      <<"wind_direction_on_height_levels">>,
      <<"wind_speed_on_height_levels">> }

\* the keys of ITEM_ASSETS[Model.uk][Theme.near_surface]
ITEM_ASSETS_uk_near_surface ==
    { <<"fog_fraction_at_screen_level">>,
      <<"hail_fall_accumulation", "-", "PT01H">>,
      <<"hail_fall_rate">>,
      <<"landsea_mask">>,
      <<"precipitation_accumulation", "-", "PT01H">>,
      <<"precipitation_accumulation", "-", "PT03H">>,
      <<"precipitation_rate">>,
      <<"pressure_at_mean_sea_level">>,
      <<"pressure_at_surface">>,
      <<"radiation_flux_in_longwave_downward_at_surface">>,
      <<"radiation_flux_in_shortwave_diffuse_downward_at_surface">>,
      <<"radiation_flux_in_shortwave_direct_downward_at_surface">>,
      <<"radiation_flux_in_shortwave_total_downward_at_surface">>,
      <<"radiation_flux_in_uv_downward_at_surface">>,
      <<"rainfall_accumulation", "-", "PT01H">>,
      <<"rainfall_accumulation", "-", "PT03H">>,
      <<"rainfall_rate">>,
      <<"relative_humidity_at_screen_level">>,
      <<"sensible_heat_flux_at_surface">>,
      <<"snow_depth_water_equivalent">>,
      <<"snowfall_accumulation", "-", "PT01H">>,
      <<"snowfall_accumulation", "-", "PT03H">>,
      <<"snowfall_rate">>,
      <<"temperature_at_screen_level">>,
      <<"temperature_at_screen_level_max", "-", "PT01H">>,
      <<"temperature_at_screen_level_min", "-", "PT01H">>,
      <<"temperature_at_surface">>,
      <<"temperature_of_dew_point_at_screen_level">>,
      <<"visibility_at_screen_level">>,
      <<"wind_direction_at_10m">>,
      <<"wind_gust_at_10m">>,
      <<"wind_gust_at_10m_max", "-", "PT01H">>,
      <<"wind_gust_at_10m_max", "-", "PT03H">>,
      <<"wind_speed_at_10m">> }

\* the keys of ITEM_ASSETS[Model.uk][Theme.pressure_level]
ITEM_ASSETS_uk_pressure_level ==
    { <<"height_ASL_on_pressure_levels">>,
      <<"relative_humidity_on_pressure_levels">>,
      <<"wet_bulb_potential_temperature_on_pressure_levels">>,
      <<"temperature_on_pressure_levels">>,
      <<"wind_direction_on_pressure_levels">>,
      <<"wind_speed_on_pressure_levels">> }

\* the keys of ITEM_ASSETS[Model.uk][Theme.whole_atmosphere]
ITEM_ASSETS_uk_whole_atmosphere ==
    { <<"CAPE_most_unstable_below_500hPa">>,
      <<"CAPE_surface">>,
      <<"cloud_amount_below_1000ft_ASL">>,
      <<"cloud_amount_of_high_cloud">>,
      <<"cloud_amount_of_low_cloud">>,
      <<"cloud_amount_of_medium_cloud">>,
      <<"cloud_amount_of_total_cloud">>,
      <<"height_AGL_at_cloud_base_where_cloud_cover_2p5_oktas">>,
      <<"height_AGL_at_freezing_level">>,
      <<"height_AGL_at_wet_bulb_freezing_level">>,
      <<"lightning_flash_accumulation", "-", "PT01H">> }

\* ITEM_ASSETS: the asset keys of every model and theme
ITEM_ASSETS ==
    [model_ \in Model |->
     IF model_ = Model_global
     THEN [theme_ \in Theme |->
         IF theme_ = Theme_height THEN ITEM_ASSETS_global_height
         ELSE IF theme_ = Theme_near_surface
         THEN ITEM_ASSETS_global_near_surface
         ELSE IF theme_ = Theme_pressure_level
         THEN ITEM_ASSETS_global_pressure_level
         ELSE ITEM_ASSETS_global_whole_atmosphere]
     ELSE [theme_ \in Theme |->
         IF theme_ = Theme_height THEN ITEM_ASSETS_uk_height
         ELSE IF theme_ = Theme_near_surface
         THEN ITEM_ASSETS_uk_near_surface
         ELSE IF theme_ = Theme_pressure_level
         THEN ITEM_ASSETS_uk_pressure_level
         ELSE ITEM_ASSETS_uk_whole_atmosphere]]

----------------------------------------------------------------------------
(* href.py *)

global_deterministic_10km == <<"global", "-", "deterministic", "-", "10km">>
uk_deterministic_2km == <<"uk", "-", "deterministic", "-", "2km">>

\* parse_model with a default model in place of the error
parse_model_default(collection) ==
    IF collection = global_deterministic_10km THEN Return(Model_global)
    ELSE IF collection = uk_deterministic_2km THEN Return(Model_uk)
    ELSE Return(Model_global)

\* Href.parse, lines 33-40: the model of a path without a model hint
parse_model(collection) ==
    IF collection = global_deterministic_10km THEN Return(Model_global)
    ELSE IF collection = uk_deterministic_2km THEN Return(Model_uk)
    ELSE Raise("ValueError", "Invalid collection")

\* parse that validates the collection segment whether or not a model hint
\* is given
parse_validating(h, m, t) ==
    LET matches == PATH_REGEX_match(h)
        model_ == IF parse_model(matches.collection).kind = "raise"
                  THEN parse_model(matches.collection)
                  ELSE IF m = None THEN parse_model(matches.collection)
                  ELSE Return(m)
        theme_ == IF t = None THEN from_parameter(matches.parameter)
                  ELSE Return(t)
    IN  IF ~matches.matched THEN Raise("ValueError", "Invalid file name")
        ELSE IF model_.kind = "raise" THEN model_
        ELSE IF theme_.kind = "raise" THEN theme_
        ELSE Return([href |-> h,
                     model |-> model_.value,
                     theme |-> theme_.value,
                     parameter |-> matches.parameter,
                     reference_datetime |-> matches.reference_datetime,
                     valid_datetime |-> matches.valid_datetime,
                     forecast_horizon |-> matches.forecast_horizon])

\* Href.parse
parse(h, m, t) ==
    LET matches == PATH_REGEX_match(h)
        model_ == IF m = None THEN parse_model(matches.collection)
                  ELSE Return(m)
        theme_ == IF t = None THEN from_parameter(matches.parameter)
                  ELSE Return(t)
    IN  IF ~matches.matched THEN Raise("ValueError", "Invalid file name")
        ELSE IF model_.kind = "raise" THEN model_
        ELSE IF theme_.kind = "raise" THEN theme_
        ELSE Return([href |-> h,
                     model |-> model_.value,
                     theme |-> theme_.value,
                     parameter |-> matches.parameter,
                     reference_datetime |-> matches.reference_datetime,
                     valid_datetime |-> matches.valid_datetime,
                     forecast_horizon |-> matches.forecast_horizon])

\* Href.collection_id
collection_id(self) == Return(get_collection_id(self.model, self.theme))

\* Href.item_id
item_id(self) ==
    Return(self.reference_datetime \o <<DASH>> \o self.valid_datetime)

\* duration with the assert on the part in front of the "-"
duration_assert_first(self) ==
    LET parts == split(self.parameter)
    IN  IF Len(parts) = 2
        THEN IF StartsWithPT(parts[1]) THEN Return(parts[2])
             ELSE Raise("AssertionError", "")
        ELSE Return(None)

\* Href.duration; the assert is live (the interpreter runs without -O)
duration(self) ==
    LET parts == split(self.parameter)
    IN  IF Len(parts) = 2
        THEN IF StartsWithPT(parts[2]) THEN Return(parts[2])
             ELSE Raise("AssertionError", "")
        ELSE Return(None)

\* the cases of Href.variable, in the order the match tests them
variable_cases ==
    <<
      [ patterns |-> { <<"cloud_amount_of_total_cloud">> },
        value |-> <<"cloud_area_fraction">> ],
      [ patterns |-> { <<"cloud_amount_of_high_cloud">> },
        value |-> <<"high_type_cloud_area_fraction">> ],
      [ patterns |-> { <<"cloud_amount_of_medium_cloud">> },
        value |-> <<"medium_type_cloud_area_fraction">> ],
      [ patterns |-> { <<"cloud_amount_of_low_cloud">> },
        value |-> <<"low_type_cloud_area_fraction">> ],
      [ patterns |-> { <<"cloud_amount_below_1000ft_ASL">> },
        value |-> <<"cloud_area_fraction_assuming_only_consider_surface_to_1000_feet_asl">> ],
      [ patterns |-> { <<"cloud_amount_on_height_levels">> },
        value |-> <<"cloud_volume_fraction_in_atmosphere_layer">> ],
      [ patterns |-> { <<"height_AGL_at_cloud_base_where_cloud_cover_2p5_oktas">> },
        value |-> <<"cloud_base_height_2p5_oktas">> ],
      [ patterns |-> { <<"cloud_amount_of_total_convective_cloud">> },
        value |-> <<"convective_cloud_area_fraction">> ],
      [ patterns |-> { <<"fog_fraction_at_screen_level">> },
        value |-> <<"fog_area_fraction">> ],
      [ patterns |-> { <<"visibility_at_screen_level">> },
        value |-> <<"visibility_in_air">> ],
      [ patterns |-> { <<"pressure_at_mean_sea_level">> },
        value |-> <<"air_pressure_at_sea_level">> ],
      [ patterns |-> { <<"pressure_at_surface">> },
        value |-> <<"surface_air_pressure">> ],
      [ patterns |-> { <<"height_ASL_on_pressure_levels">> },
        value |-> <<"geopotential_height">> ],
      [ patterns |-> { <<"pressure_at_tropopause">> },
        value |-> <<"tropopause_air_pressure">> ],
      [ patterns |-> { <<"precipitation_rate">> },
        value |-> <<"lwe_precipitation_rate">> ],
      [ patterns |-> { <<"precipitation_accumulation", "-", "PT01H">>,
                      <<"precipitation_accumulation", "-", "PT03H">>,
                      <<"precipitation_accumulation", "-", "PT06H">> },
        value |-> <<"lwe_thickness_of_precipitation_amount">> ],
      [ patterns |-> { <<"rainfall_accumulation", "-", "PT01H">>,
                      <<"rainfall_accumulation", "-", "PT03H">>,
                      <<"rainfall_accumulation", "-", "PT06H">> },
        value |-> <<"thickness_of_rainfall_amount">> ],
      [ patterns |-> { <<"rainfall_rate">> },
        value |-> <<"rainfall_rate">> ],
      [ patterns |-> { <<"rainfall_rate_from_convection">>,
                      <<"rainfall_rate_from_convection_max", "-", "PT01H">>,
                      <<"rainfall_rate_from_convection_max", "-", "PT03H">>,
                      <<"rainfall_rate_from_convection_max", "-", "PT06H">> },
        value |-> <<"convective_rainfall_rate">> ],
      [ patterns |-> { <<"radiation_flux_in_uv_downward_at_surface">> },
        value |-> <<"surface_downwelling_ultraviolet_flux_in_air">> ],
      [ patterns |-> { <<"radiation_flux_in_longwave_downward_at_surface">> },
        value |-> <<"surface_downwelling_longwave_flux_in_air">> ],
      [ patterns |-> { <<"radiation_flux_in_shortwave_direct_downward_at_surface">> },
        value |-> <<"surface_direct_downwelling_shortwave_flux_in_air">> ],
      [ patterns |-> { <<"radiation_flux_in_shortwave_total_downward_at_surface">> },
        value |-> <<"surface_downwelling_shortwave_flux_in_air">> ],
      [ patterns |-> { <<"radiation_flux_in_shortwave_diffuse_downward_at_surface">> },
        value |-> <<"surface_diffusive_downwelling_shortwave_flux_in_air">> ],
      [ patterns |-> { <<"snow_depth_water_equivalent">> },
        value |-> <<"lwe_thickness_of_surface_snow_amount">> ],
      [ patterns |-> { <<"snowfall_rate">> },
        value |-> <<"lwe_snowfall_rate">> ],
      [ patterns |-> { <<"snowfall_accumulation", "-", "PT01H">>,
                      <<"snowfall_accumulation", "-", "PT03H">> },
        value |-> <<"lwe_thickness_of_snowfall_amount">> ],
      [ patterns |-> { <<"snowfall_rate_from_convection">>,
                      <<"snowfall_rate_from_convection_mean", "-", "PT01H">>,
                      <<"snowfall_rate_from_convection_mean", "-", "PT03H">>,
                      <<"snowfall_rate_from_convection_mean", "-", "PT06H">>,
                      <<"snowfall_rate_from_convection_max", "-", "PT01H">>,
                      <<"snowfall_rate_from_convection_max", "-", "PT03H">>,
                      <<"snowfall_rate_from_convection_max", "-", "PT06H">> },
        value |-> <<"lwe_convective_snowfall_rate">> ],
      [ patterns |-> { <<"hail_fall_rate">> },
        value |-> <<"lwe_graupel_and_hail_fall_rate">> ],
      [ patterns |-> { <<"hail_fall_accumulation", "-", "PT01H">> },
        value |-> <<"lwe_thickness_of_graupel_and_hail_fall_amount">> ],
      [ patterns |-> { <<"lightning_flash_accumulation", "-", "PT01H">> },
        value |-> <<"number_of_lightning_flashes_per_unit_area">> ],
      [ patterns |-> { <<"temperature_at_screen_level">>,
                      <<"temperature_at_screen_level_max", "-", "PT01H">>,
                      <<"temperature_at_screen_level_max", "-", "PT03H">>,
                      <<"temperature_at_screen_level_max", "-", "PT06H">>,
                      <<"temperature_at_screen_level_min", "-", "PT01H">>,
                      <<"temperature_at_screen_level_min", "-", "PT03H">>,
                      <<"temperature_at_screen_level_min", "-", "PT06H">>,
                      <<"temperature_on_pressure_levels">>,
                      <<"temperature_on_height_levels">> },
        value |-> <<"air_temperature">> ],
      [ patterns |-> { <<"temperature_at_surface">> },
        value |-> <<"surface_temperature">> ],
      [ patterns |-> { <<"temperature_at_tropopause">> },
        value |-> <<"tropopause_air_temperature">> ],
      [ patterns |-> { <<"temperature_of_dew_point_at_screen_level">> },
        value |-> <<"dew_point_temperature">> ],
      [ patterns |-> { <<"wet_bulb_potential_temperature_on_pressure_levels">> },
        value |-> <<"wet_bulb_potential_temperature">> ],
      [ patterns |-> { <<"wind_direction_at_10m">>,
                      <<"wind_direction_on_pressure_levels">>,
                      <<"wind_direction_on_height_levels">> },
        value |-> <<"wind_from_direction">> ],
      [ patterns |-> { <<"wind_speed_at_10m">>,
                      <<"wind_speed_on_pressure_levels">>,
                      <<"wind_speed_on_height_levels">> },
        value |-> <<"wind_speed">> ],
      [ patterns |-> { <<"wind_gust_at_10m">>,
                      <<"wind_gust_at_10m_max", "-", "PT01H">>,
                      <<"wind_gust_at_10m_max", "-", "PT03H">>,
                      <<"wind_gust_at_10m_max", "-", "PT06H">> },
        value |-> <<"wind_speed_of_gust">> ],
      [ patterns |-> { <<"wind_vertical_velocity_on_pressure_levels">> },
        value |-> <<"upward_air_velocity">> ],
      [ patterns |-> { <<"CAPE_most_unstable_below_500hPa">>,
                      <<"CAPE_mixed_layer_lowest_500m">> },
        value |-> <<"atmosphere_convective_available_potential_energy">> ],
      [ patterns |-> { <<"CAPE_surface">> },
        value |-> <<"atmosphere_convective_available_potential_energy_wrt_surface">> ],
      [ patterns |-> { <<"CIN_surface">> },
        value |-> <<"atmosphere_convective_inhibition_wrt_surface">> ],
      [ patterns |-> { <<"CIN_mixed_layer_lowest_500m">>,
                      <<"CIN_most_unstable_below_500hPa">> },
        value |-> <<"atmosphere_convective_inhibition">> ],
      [ patterns |-> { <<"sensible_heat_flux_at_surface">> },
        value |-> <<"surface_upward_sensible_heat_flux">> ],
      [ patterns |-> { <<"latent_heat_flux_at_surface_mean", "-", "PT01H">>,
                      <<"latent_heat_flux_at_surface_mean", "-", "PT03H">>,
                      <<"latent_heat_flux_at_surface_mean", "-", "PT06H">> },
        value |-> <<"surface_upward_latent_heat_flux">> ],
      [ patterns |-> { <<"relative_humidity_at_screen_level">>,
                      <<"relative_humidity_on_pressure_levels">> },
        value |-> <<"relative_humidity">> ],
      [ patterns |-> { <<"height_AGL_at_wet_bulb_freezing_level">> },
        value |-> <<"wet_bulb_freezing_level_height">> ],
      [ patterns |-> { <<"height_AGL_at_freezing_level">> },
        value |-> <<"freezing_level_height">> ],
      [ patterns |-> { <<"landsea_mask">> },
        value |-> <<"land_binary_mask">> ]
    >>

\* Href.variable without the cases of the height parameters
variable_height_unnamed(self) ==
    LET i == MatchCase(variable_cases, self.parameter)
    IN  IF i = 0 \/ self.parameter \in HeightParameters THEN Return(None)
        ELSE Return(variable_cases[i].value)

\* Href.variable
variable(self) ==
    LET i == MatchCase(variable_cases, self.parameter)
    IN  IF i = 0 THEN Return(None) ELSE Return(variable_cases[i].value)

\* the properties of Href the model reads
\* __str__ that drops a newline at the end of the href
str_stripped(self) ==
    IF self.href # <<>> /\ self.href[Len(self.href)] = NL
    THEN Return(SubSeq(self.href, 1, Len(self.href) - 1))
    ELSE Return(self.href)

\* Href.__str__
str(self) == Return(self.href)

Properties == {"collection_id", "item_id", "duration", "variable", "__str__"}

getattr(self, name) ==
    CASE name = "collection_id" -> collection_id(self)
      [] name = "item_id" -> item_id(self)
      [] name = "duration" -> duration(self)
      [] name = "variable" -> variable(self)
      [] name = "__str__" -> str(self)

----------------------------------------------------------------------------
(* stac.py *)

PROTOCOL == <<"s3">>
BUCKET == <<"met", "-", "office", "-", "atmospheric", "-", "model", "-", "data">>

\* A Python dict: the [key, value] pairs in insertion order.
dict_keys(d) == {d[i].key : i \in 1..Len(d)}

dict_index(d, k) == CHOOSE i \in 1..Len(d) : d[i].key = k

dict_get(d, k) == d[dict_index(d, k)].value

\* a list of pairs in place of the dict: an assignment adds a pair
dict_set_append(d, k, v) == Append(d, [key |-> k, value |-> v])

\* d = {k: v}: the assignment drops what the dict held
dict_set_fresh(d, k, v) == <<[key |-> k, value |-> v]>>

\* d.setdefault(k, v): a key the dict holds keeps its value
dict_set_keep_first(d, k, v) ==
    IF k \in dict_keys(d) THEN d ELSE Append(d, [key |-> k, value |-> v])

\* d[k] = v: a key the dict holds keeps its place and takes the new value
dict_set(d, k, v) ==
    IF k \in dict_keys(d) THEN [d EXCEPT ![dict_index(d, k)].value = v]
    ELSE Append(d, [key |-> k, value |-> v])

\* datetime.isoformat of a listing entry's last_modified; the model's clock
\* counts whole days from 2025-10-21T00:00:00
isoformat(last_modified) ==
    <<"2025", "-", "10", "-",
      <<"21T00", "22T00", "23T00", "24T00">>[last_modified + 1],
      ":", "00", ":", "00">>

\* collect_result with the whole variable segment, duration included, as
\* the asset key
collect_result_whole_key(assets, result, variables, protocol, bucket, valid_time) ==
    LET parsed_ == PATH_PATTERN_match(result.path)
        variable_ == parsed_.variable
        key == IF parsed_.duration # None
               THEN variable_ \o <<DASH>> \o parsed_.duration
               ELSE variable_
        item_id_ == parsed_.reference_time \o <<DASH>> \o parsed_.valid_time
        base == ("forecast:variable" :> variable_)
                    @@ ("updated" :> isoformat(result.last_modified))
        extra_fields == IF parsed_.duration # None
                        THEN base @@ ("forecast:duration" :> parsed_.duration)
                        ELSE base
        asset == [href |-> protocol \o <<COLON, SLASH, SLASH>> \o bucket
                               \o <<SLASH>> \o result.path,
                  extra_fields |-> extra_fields]
        item_assets == IF item_id_ \in dict_keys(assets)
                       THEN dict_get(assets, item_id_)
                       ELSE <<>>
    IN  IF ~parsed_.matched THEN assets
        ELSE IF valid_time # None /\ valid_time # <<>>
                /\ parsed_.valid_time # valid_time THEN assets
        ELSE IF variable_ \notin variables THEN assets
        ELSE dict_set(assets, item_id_, dict_set(item_assets, key, asset))

\* the body of the loop with item_id = parsed.group("valid_time")
collect_result_by_valid_time(assets, result, variables, protocol, bucket, valid_time) ==
    LET parsed_ == PATH_PATTERN_match(result.path)
        variable_ == parsed_.variable
        item_id_ == parsed_.valid_time
        base == ("forecast:variable" :> variable_)
                    @@ ("updated" :> isoformat(result.last_modified))
        extra_fields == IF parsed_.duration # None
                        THEN base @@ ("forecast:duration" :> parsed_.duration)
                        ELSE base
        asset == [href |-> protocol \o <<COLON, SLASH, SLASH>> \o bucket
                               \o <<SLASH>> \o result.path,
                  extra_fields |-> extra_fields]
        item_assets == IF item_id_ \in dict_keys(assets)
                       THEN dict_get(assets, item_id_)
                       ELSE <<>>
    IN  IF ~parsed_.matched THEN assets
        ELSE IF valid_time # None /\ valid_time # <<>>
                /\ parsed_.valid_time # valid_time THEN assets
        ELSE IF variable_ \notin variables THEN assets
        ELSE dict_set(assets, item_id_, dict_set(item_assets, variable_, asset))

\* the body of the loop without lines 134-138: no variable is skipped
collect_result_unfiltered(assets, result, variables, protocol, bucket, valid_time) ==
    LET parsed_ == PATH_PATTERN_match(result.path)
        variable_ == parsed_.variable
        item_id_ == parsed_.reference_time \o <<DASH>> \o parsed_.valid_time
        base == ("forecast:variable" :> variable_)
                    @@ ("updated" :> isoformat(result.last_modified))
        extra_fields == IF parsed_.duration # None
                        THEN base @@ ("forecast:duration" :> parsed_.duration)
                        ELSE base
        asset == [href |-> protocol \o <<COLON, SLASH, SLASH>> \o bucket
                               \o <<SLASH>> \o result.path,
                  extra_fields |-> extra_fields]
        item_assets == IF item_id_ \in dict_keys(assets)
                       THEN dict_get(assets, item_id_)
                       ELSE <<>>
    IN  IF ~parsed_.matched THEN assets
        ELSE IF valid_time # None /\ valid_time # <<>>
                /\ parsed_.valid_time # valid_time THEN assets
        ELSE dict_set(assets, item_id_, dict_set(item_assets, variable_, asset))

\* _collect_assets, lines 126-157: the body of the loop for one listing
\* entry.  An Asset is its href and extra_fields; title, description, roles
\* and media_type do not depend on the path and are left out.
collect_result(assets, result, variables, protocol, bucket, valid_time) ==
    LET parsed_ == PATH_PATTERN_match(result.path)
        variable_ == parsed_.variable
        item_id_ == parsed_.reference_time \o <<DASH>> \o parsed_.valid_time
        base == ("forecast:variable" :> variable_)
                    @@ ("updated" :> isoformat(result.last_modified))
        extra_fields == IF parsed_.duration # None
                        THEN base @@ ("forecast:duration" :> parsed_.duration)
                        ELSE base
        asset == [href |-> protocol \o <<COLON, SLASH, SLASH>> \o bucket
                               \o <<SLASH>> \o result.path,
                  extra_fields |-> extra_fields]
        item_assets == IF item_id_ \in dict_keys(assets)
                       THEN dict_get(assets, item_id_)
                       ELSE <<>>
    IN  IF ~parsed_.matched THEN assets
        ELSE IF valid_time # None /\ valid_time # <<>>
                /\ parsed_.valid_time # valid_time THEN assets
        ELSE IF variable_ \notin variables THEN assets
        ELSE dict_set(assets, item_id_, dict_set(item_assets, variable_, asset))

\* the entries of one page with `break` for `continue` at line 129: the
\* first key that does not match ends the page
RECURSIVE collect_page_break(_, _, _, _, _, _)
collect_page_break(assets, list_result, variables, protocol, bucket, valid_time) ==
    IF list_result = <<>> THEN assets
    ELSE IF ~PATH_PATTERN_match(Head(list_result).path).matched THEN assets
    ELSE collect_page_break(
             collect_result(assets, Head(list_result), variables, protocol,
                            bucket, valid_time),
             Tail(list_result), variables, protocol, bucket, valid_time)

\* _collect_assets, line 125: the entries of one page of the listing
RECURSIVE collect_page(_, _, _, _, _, _)
collect_page(assets, list_result, variables, protocol, bucket, valid_time) ==
    IF list_result = <<>> THEN assets
    ELSE collect_page(
             collect_result(assets, Head(list_result), variables, protocol,
                            bucket, valid_time),
             Tail(list_result), variables, protocol, bucket, valid_time)

\* the loop at line 124 with `break` at the end of its body: the first
\* page of the listing alone is read
collect_stream_first_page(assets, stream, variables, protocol, bucket, valid_time) ==
    IF stream = <<>> THEN assets
    ELSE collect_page(assets, Head(stream), variables, protocol, bucket,
                      valid_time)

\* _collect_assets, line 124: the pages of the listing
RECURSIVE collect_stream(_, _, _, _, _, _)
collect_stream(assets, stream, variables, protocol, bucket, valid_time) ==
    IF stream = <<>> THEN assets
    ELSE collect_stream(
             collect_page(assets, Head(stream), variables, protocol, bucket,
                          valid_time),
             Tail(stream), variables, protocol, bucket, valid_time)

\* return assets: the empty mapping is returned as it is
assets_or_raise_never(assets) == Return(assets)

\* _collect_assets, lines 159-166: an empty mapping is a fault
assets_or_raise(assets) ==
    IF assets = <<>> THEN Raise("ValueError", "No assets found")
    ELSE Return(assets)

\* _collect_assets; `stream` is what obstore.list yields for the prefix and
\* `variables` the keys of the collection's variable table
collect_assets(stream, variables, protocol, bucket, valid_time) ==
    assets_or_raise(collect_stream(<<>>, stream, variables, protocol, bucket,
                                   valid_time))

\* str.startswith and str.endswith, on whole tokens
startswith(s, prefix) ==
    Len(s) >= Len(prefix) /\ SubSeq(s, 1, Len(prefix)) = prefix

endswith(s, suffix) ==
    Len(s) >= Len(suffix)
        /\ SubSeq(s, Len(s) - Len(suffix) + 1, Len(s)) = suffix

\* a variable name without its duration suffix
Stem(parameter) ==
    IF Len(parameter) = 3 /\ parameter[2] = DASH THEN <<parameter[1]>>
    ELSE parameter

\* The variable tables of the collections, by their keys.  A collection's
\* table holds the variables of its theme, without duration suffix; the
\* surface table holds the near-surface and the whole-atmosphere variables.
global_height_variables == {Stem(p) : p \in HeightParameters}
global_pressure_variables == {Stem(p) : p \in PressureLevelParameters}
global_surface_variables ==
    {Stem(p) : p \in NearSurfaceParameters \cup WholeAtmosphereParameters}
uk_height_variables == global_height_variables
uk_pressure_variables == global_pressure_variables
uk_surface_variables == global_surface_variables

\* _get_collection_variables
get_collection_variables(collection) ==
    IF startswith(collection, <<"met", "-", "office", "-", "global">>)
           /\ endswith(collection, <<"-", "pressure">>)
    THEN Return(global_pressure_variables)
    ELSE IF startswith(collection, <<"met", "-", "office", "-", "global">>)
           /\ endswith(collection, <<"-", "height">>)
    THEN Return(global_height_variables)
    ELSE IF startswith(collection, <<"met", "-", "office", "-", "global">>)
           /\ endswith(collection, <<"-", "surface">>)
    THEN Return(global_surface_variables)
    ELSE IF startswith(collection, <<"met", "-", "office", "-", "global">>)
    THEN Raise("ValueError", "Unknown collection")
    ELSE IF startswith(collection, <<"met", "-", "office", "-", "uk">>)
           /\ endswith(collection, <<"-", "pressure">>)
    THEN Return(uk_pressure_variables)
    ELSE IF startswith(collection, <<"met", "-", "office", "-", "uk">>)
           /\ endswith(collection, <<"-", "height">>)
    THEN Return(uk_height_variables)
    ELSE IF startswith(collection, <<"met", "-", "office", "-", "uk">>)
           /\ endswith(collection, <<"-", "surface">>)
    THEN Return(uk_surface_variables)
    ELSE Raise("ValueError", "Unknown collection")

\* A datetime of the model: a day counted from 2025-10-21 and a whole hour.
datetime(day, hour) == [day |-> day, hour |-> hour]

Stamps ==
    << <<"20251021T0000Z", "20251021T0100Z", "20251021T0200Z">>,
       <<"20251022T0000Z", "20251022T0100Z", "20251022T0200Z">> >>

\* datetime.strftime("%Y%m%dT%H%MZ")
strftime(dt) == <<Stamps[dt.day + 1][dt.hour + 1]>>

\* datetime.strptime(s, "%Y%m%dT%H%MZ")
strptime(s) ==
    IF \E d \in 0..1, h \in 0..2 : s = strftime(datetime(d, h))
    THEN Return(CHOOSE dt \in [day : 0..1, hour : 0..2] : s = strftime(dt))
    ELSE Raise("ValueError", "does not match format")

\* datetime.isoformat
datetime_isoformat(dt) ==
    <<"2025", "-", "10", "-",
      << <<"21T00", "21T01", "21T02">>,
         <<"22T00", "22T01", "22T02">> >>[dt.day + 1][dt.hour + 1],
      ":", "00", ":", "00">>

\* The constants of the item's extent; each stands for its value.
GLOBAL_BBOX == "GLOBAL_BBOX"
GLOBAL_GEOMETRY == "GLOBAL_GEOMETRY"
UK_BBOX == "UK_BBOX"
UK_GEOMETRY == "UK_GEOMETRY"
UK_PROJECTED_GEOMETRY == "UK_PROJECTED_GEOMETRY"
UK_PROJECTED_BBOX == "UK_PROJECTED_BBOX"
UK_PROJECTED_CRS_WKT2 == "UK_PROJECTED_CRS_WKT2"

\* _create_item_from_assets without the test of line 198
create_item_from_assets_proj_always(item_id_, collection, assets, reference_time, add_collection) ==
    LET example_asset_href == assets[1].value.href
        parsed_ == PATH_PATTERN_match(example_asset_href)
        valid == strptime(parsed_.valid_time)
    IN  IF ~parsed_.matched THEN Raise("ValueError", "could not parse")
        ELSE IF valid.kind = "raise" THEN valid
        ELSE Return(
            [id |-> item_id_,
             datetime |-> valid.value,
             bbox |-> IF Has(collection, "global") THEN GLOBAL_BBOX
                      ELSE UK_BBOX,
             geometry |-> IF Has(collection, "global") THEN GLOBAL_GEOMETRY
                          ELSE UK_GEOMETRY,
             properties |->
                 ("forecast:reference_datetime"
                      :> datetime_isoformat(reference_time))
                 @@ ("forecast:horizon" :> parsed_.forecast_horizon),
             proj |-> IF TRUE
                      THEN <<[key |-> "proj:geometry",
                              value |-> UK_PROJECTED_GEOMETRY],
                             [key |-> "proj:bbox",
                              value |-> UK_PROJECTED_BBOX],
                             [key |-> "proj:wkt2",
                              value |-> UK_PROJECTED_CRS_WKT2]>>
                      ELSE <<>>,
             assets |-> assets,
             collection |-> IF add_collection THEN collection ELSE None])

\* _create_item_from_assets.  bbox and geometry are the constant that is
\* taken; proj holds the fields of the proj extension, which is applied to
\* the uk collections.
create_item_from_assets(item_id_, collection, assets, reference_time, add_collection) ==
    LET example_asset_href == assets[1].value.href
        parsed_ == PATH_PATTERN_match(example_asset_href)
        valid == strptime(parsed_.valid_time)
    IN  IF ~parsed_.matched THEN Raise("ValueError", "could not parse")
        ELSE IF valid.kind = "raise" THEN valid
        ELSE Return(
            [id |-> item_id_,
             datetime |-> valid.value,
             bbox |-> IF Has(collection, "global") THEN GLOBAL_BBOX
                      ELSE UK_BBOX,
             geometry |-> IF Has(collection, "global") THEN GLOBAL_GEOMETRY
                          ELSE UK_GEOMETRY,
             properties |->
                 ("forecast:reference_datetime"
                      :> datetime_isoformat(reference_time))
                 @@ ("forecast:horizon" :> parsed_.forecast_horizon),
             proj |-> IF Has(collection, "uk")
                      THEN <<[key |-> "proj:geometry",
                              value |-> UK_PROJECTED_GEOMETRY],
                             [key |-> "proj:bbox",
                              value |-> UK_PROJECTED_BBOX],
                             [key |-> "proj:wkt2",
                              value |-> UK_PROJECTED_CRS_WKT2]>>
                      ELSE <<>>,
             assets |-> assets,
             collection |-> IF add_collection THEN collection ELSE None])

\* str.replace("met-office-", "", 1)
replace_met_office(s) ==
    LET is == {i \in 1..Len(s) - 3 :
                  SubSeq(s, i, i + 3) = <<"met", "-", "office", "-">>}
    IN  IF is = {} THEN s
        ELSE SubSeq(s, 1, Min(is) - 1) \o SubSeq(s, Min(is) + 4, Len(s))

\* lines 266-275 without the rsplit of lines 267-268
key_prefix_with_theme(collection, reference_time) ==
    replace_met_office(collection) \o <<SLASH>> \o strftime(reference_time)

\* create_item, lines 223-232: the prefix of the keys to list
key_prefix(collection, reference_time) ==
    LET replaced == replace_met_office(collection)
        dashes == {i \in 1..Len(replaced) : replaced[i] = DASH}
        base_collection ==
            IF \E theme_ \in {"surface", "height", "pressure"} :
                   endswith(replaced, <<DASH, theme_>>)
            THEN SubSeq(replaced, 1, Max(dashes) - 1)
            ELSE replaced
    IN  base_collection \o <<SLASH>> \o strftime(reference_time)

\* create_items_for_reference_time, lines 266-275: the prefix of the keys
\* to list
key_prefix_for_reference_time(collection, reference_time) ==
    LET replaced == replace_met_office(collection)
        dashes == {i \in 1..Len(replaced) : replaced[i] = DASH}
        base_collection ==
            IF \E theme_ \in {"surface", "height", "pressure"} :
                   endswith(replaced, <<DASH, theme_>>)
            THEN SubSeq(replaced, 1, Max(dashes) - 1)
            ELSE replaced
    IN  base_collection \o <<SLASH>> \o strftime(reference_time)

\* create_item without lines 243-244: the first item of several is taken
create_item_from_collected_first(collected_, collection, reference_time, add_collection) ==
    IF collected_.kind = "raise" THEN collected_
    ELSE IF collected_.value = <<>>
    THEN Raise("ValueError", "No assets found")
    ELSE create_item_from_assets(collected_.value[1].key, collection,
                                 collected_.value[1].value, reference_time,
                                 add_collection)

\* create_item, lines 240-249: from the mapping _collect_assets returned
create_item_from_collected(collected_, collection, reference_time, add_collection) ==
    IF collected_.kind = "raise" THEN collected_
    ELSE IF collected_.value = <<>>
    THEN Raise("ValueError", "No assets found")
    ELSE IF Len(collected_.value) > 1
    THEN Raise("ValueError", "Expected single item")
    ELSE create_item_from_assets(collected_.value[1].key, collection,
                                 collected_.value[1].value, reference_time,
                                 add_collection)

\* create_item, lines 234-249: with the outcome of
\* _get_collection_variables
create_item_for(variables, stream, collection, reference_time, valid_time, protocol, bucket, add_collection) ==
    IF variables.kind = "raise" THEN variables
    ELSE create_item_from_collected(
             collect_assets(stream, variables.value, protocol, bucket,
                            strftime(valid_time)),
             collection, reference_time, add_collection)

\* create_item on the listing `stream`
create_item(stream, collection, reference_time, valid_time, protocol, bucket, add_collection) ==
    create_item_for(get_collection_variables(collection), stream, collection,
                    reference_time, valid_time, protocol, bucket,
                    add_collection)

\* the items in the order of reversed(assets_by_item.items())
items_from_collected_reversed(assets_by_item, collection, reference_time, add_collection) ==
    [i \in 1..Len(assets_by_item) |->
        create_item_from_assets(
            assets_by_item[Len(assets_by_item) + 1 - i].key, collection,
            assets_by_item[Len(assets_by_item) + 1 - i].value,
            reference_time, add_collection)]

\* create_items_for_reference_time, lines 282-287: the outcome of
\* _create_item_from_assets for every entry of the mapping, in its order
items_from_collected(assets_by_item, collection, reference_time, add_collection) ==
    [i \in 1..Len(assets_by_item) |->
        create_item_from_assets(assets_by_item[i].key, collection,
                                assets_by_item[i].value, reference_time,
                                add_collection)]

\* the list of the items; the first fault ends the call
items_or_raise(items) ==
    IF \E i \in 1..Len(items) : items[i].kind = "raise"
    THEN items[Min({i \in 1..Len(items) : items[i].kind = "raise"})]
    ELSE Return([i \in 1..Len(items) |-> items[i].value])

\* create_items_for_reference_time, lines 278-287: from the outcome of
\* _collect_assets
create_items_from_collected(collected_, collection, reference_time, add_collection) ==
    IF collected_.kind = "raise" THEN collected_
    ELSE items_or_raise(items_from_collected(collected_.value, collection,
                                             reference_time, add_collection))

\* create_items_for_reference_time, lines 277-287: with the outcome of
\* _get_collection_variables
create_items_for(variables, stream, collection, reference_time, protocol, bucket, add_collection) ==
    IF variables.kind = "raise" THEN variables
    ELSE create_items_from_collected(
             collect_assets(stream, variables.value, protocol, bucket, None),
             collection, reference_time, add_collection)

\* create_items_for_reference_time on the listing `stream`
create_items_for_reference_time(stream, collection, reference_time, protocol, bucket, add_collection) ==
    create_items_for(get_collection_variables(collection), stream,
                     collection, reference_time, protocol, bucket,
                     add_collection)

----------------------------------------------------------------------------
(* provider.py *)

\* inspect.Parameter(name, kind, default=default); `empty` is the default of
\* a parameter that has none
empty == "<empty>"
Parameter(name, kind, default) ==
    [name |-> name, kind |-> kind, default |-> default]

\* the parameters of the bound methods of MetOfficeSTACProvider
create_collection_parameters ==
    << Parameter("collection", "POSITIONAL_OR_KEYWORD", empty) >>

create_item_parameters ==
    << Parameter("collection", "POSITIONAL_OR_KEYWORD", empty),
       Parameter("reference_time", "POSITIONAL_OR_KEYWORD", empty),
       Parameter("valid_time", "POSITIONAL_OR_KEYWORD", empty),
       Parameter("storage_protocol", "POSITIONAL_OR_KEYWORD", "s3"),
       Parameter("storage_bucket", "POSITIONAL_OR_KEYWORD",
                 "met-office-atmospheric-model-data"),
       Parameter("storage_region", "POSITIONAL_OR_KEYWORD", "eu-west-2") >>

create_items_parameters ==
    << Parameter("collection", "POSITIONAL_OR_KEYWORD", empty),
       Parameter("reference_time", "POSITIONAL_OR_KEYWORD", empty),
       Parameter("storage_protocol", "POSITIONAL_OR_KEYWORD", "s3"),
       Parameter("storage_bucket", "POSITIONAL_OR_KEYWORD",
                 "met-office-atmospheric-model-data"),
       Parameter("storage_region", "POSITIONAL_OR_KEYWORD", "eu-west-2") >>

\* inspect.signature(provider.<method>).parameters
inspect_signature(method) ==
    CASE method = "create_collection" -> create_collection_parameters
      [] method = "create_item" -> create_item_parameters
      [] method = "create_items" -> create_items_parameters

\* What a generator did when it was run to its end: the values it yielded,
\* and how it ended.
Generator(yielded, end) == [yielded |-> yielded, end |-> end]

\* a generator that yields every item as soon as it is built
provider_create_items_lazy(stream, collection, reference_time, storage_protocol, storage_bucket) ==
    LET variables == get_collection_variables(collection)
        collected_ ==
            IF variables.kind = "raise" THEN variables
            ELSE collect_assets(stream, variables.value, storage_protocol,
                                storage_bucket, None)
        built == IF collected_.kind = "raise" THEN <<>>
                 ELSE items_from_collected(collected_.value, collection,
                                           reference_time, FALSE)
        faults == {i \in 1..Len(built) : built[i].kind = "raise"}
    IN  IF collected_.kind = "raise" THEN Generator(<<>>, collected_)
        ELSE IF faults = {}
        THEN Generator([i \in 1..Len(built) |-> built[i].value],
                       Return(None))
        ELSE Generator([i \in 1..Min(faults) - 1 |-> built[i].value],
                       built[Min(faults)])

\* MetOfficeSTACProvider.create_items, lines 46-53: the items of the list
\* that create_items_for_reference_time returned are yielded one by one; a
\* call that raised has yielded nothing
yield_items(items) ==
    IF items.kind = "raise" THEN Generator(<<>>, items)
    ELSE Generator(items.value, Return(None))

\* MetOfficeSTACProvider.create_items
provider_create_items(stream, collection, reference_time, storage_protocol, storage_bucket) ==
    yield_items(create_items_for_reference_time(
                    stream, collection, reference_time, storage_protocol,
                    storage_bucket, FALSE))

\* MetOfficeSTACProvider.create_item
provider_create_item(stream, collection, reference_time, valid_time, storage_protocol, storage_bucket) ==
    create_item(stream, collection, reference_time, valid_time,
                storage_protocol, storage_bucket, FALSE)

\* MetOfficeSTACProvider.create_collection
provider_create_collection(collection) ==
    Raise("NotImplementedError",
          "collection creation is not yet implemented")

----------------------------------------------------------------------------
(* core/cli.py *)

\* OutputFormat
OutputFormat == {"ndjson", "geojson"}

\* the order of the parameter kinds of a signature
ParameterKinds ==
    <<"POSITIONAL_ONLY", "POSITIONAL_OR_KEYWORD", "VAR_POSITIONAL",
      "KEYWORD_ONLY", "VAR_KEYWORD">>

KindOrder(kind) == CHOOSE i \in 1..Len(ParameterKinds) : ParameterKinds[i] = kind

\* create_cli_app, lines 89-114, with the format option among the options
\* of every command
cli_params_with_format ==
    << Parameter("output", "KEYWORD_ONLY", "None"),
       Parameter("format", "KEYWORD_ONLY", "ndjson"),
       Parameter("verbose", "KEYWORD_ONLY", "False"),
       Parameter("quiet", "KEYWORD_ONLY", "False"),
       Parameter("log_file", "KEYWORD_ONLY", "None") >>

\* create_cli_app, lines 89-114
cli_params ==
    << Parameter("output", "KEYWORD_ONLY", "None"),
       Parameter("verbose", "KEYWORD_ONLY", "False"),
       Parameter("quiet", "KEYWORD_ONLY", "False"),
       Parameter("log_file", "KEYWORD_ONLY", "None") >>

\* create_cli_app, lines 192-197
format_param == Parameter("format", "KEYWORD_ONLY", "ndjson")

\* list.insert(i, x), for an index that is not negative
list_insert(l, i, x) ==
    IF i >= Len(l) THEN Append(l, x)
    ELSE SubSeq(l, 1, i) \o <<x>> \o SubSeq(l, i + 1, Len(l))

\* Signature.replace(parameters=...): the kinds are in order, no positional
\* parameter without default follows one with a default, and no name is
\* there twice
signature_replace(parameters) ==
    IF \E i, j \in 1..Len(parameters) :
           i < j /\ KindOrder(parameters[i].kind) > KindOrder(parameters[j].kind)
    THEN Raise("ValueError", "wrong parameter order")
    ELSE IF \E i, j \in 1..Len(parameters) :
                /\ i < j
                /\ parameters[j].kind = "POSITIONAL_OR_KEYWORD"
                /\ parameters[i].default # empty
                /\ parameters[j].default = empty
    THEN Raise("ValueError", "non-default argument follows default argument")
    ELSE IF \E i, j \in 1..Len(parameters) :
                i < j /\ parameters[i].name = parameters[j].name
    THEN Raise("ValueError", "duplicate parameter name")
    ELSE Return(parameters)

\* The app: the step create_cli_app has reached, its list cli_params, the
\* signature of every command that is registered, and the command that ran.
App(pc, params, commands, run) ==
    [pc |-> pc, cli_params |-> params, commands |-> commands, run |-> run]

\* create_cli_app, lines 117-137, 140-160 and 163-203: the command `name` is
\* registered with the parameters of the provider's method and the options
add_command(app, method, name, params) ==
    LET provider_params == inspect_signature(method)
        new_sig == signature_replace(provider_params \o params)
    IN  IF new_sig.kind = "raise"
        THEN App("raised", params, app.commands, new_sig)
        ELSE App(name, params, dict_set(app.commands, name, new_sig.value),
                 app.run)

\* json.dumps(item.to_dict()), _format_items_as_geojson(items) and
\* "\n".join(lines): the text, by its kind and the items it holds
Content(kind, items) == [kind |-> kind, items |-> items]

\* What a command did: the options it was given, the items the provider
\* yielded, what was printed, what was written to the output file, and the
\* outcome.
Ran(command, args, yielded, stdout, file, outcome) ==
    [kind |-> "ran", command |-> command, args |-> args,
     yielded |-> yielded, stdout |-> stdout, file |-> file,
     outcome |-> outcome]

\* _write_output(content, output_file)
write_output(command, args, yielded, content, output_file) ==
    IF output_file # "None"
    THEN Ran(command, args, yielded, <<>>, <<content>>, Return(None))
    ELSE Ran(command, args, yielded, <<content>>, <<>>, Return(None))

\* list(generator)
list(generator) ==
    IF generator.end.kind = "raise" THEN generator.end
    ELSE Return(generator.yielded)

\* create_items_wrapper, lines 177-190, on the generator the provider gave
create_items_written(args, generator, items) ==
    IF items.kind = "raise"
    THEN Ran("create-items", args, generator.yielded, <<>>, <<>>, items)
    ELSE IF args.format = "geojson"
    THEN write_output("create-items", args, generator.yielded,
                      Content("FeatureCollection", items.value), args.output)
    ELSE IF args.output # "None"
    THEN write_output("create-items", args, generator.yielded,
                      Content("lines", items.value), args.output)
    ELSE Ran("create-items", args, generator.yielded,
             [i \in 1..Len(items.value) |->
                 Content("json", <<items.value[i]>>)],
             <<>>, Return(None))

\* create_items_wrapper, lines 166-190
create_items_wrapper(args, generator) ==
    create_items_written(args, generator, list(generator))

\* create_item_wrapper, lines 143-155
create_item_wrapper(args, item) ==
    IF item.kind = "raise"
    THEN Ran("create-item", args, <<>>, <<>>, <<>>, item)
    ELSE write_output("create-item", args, <<>>,
                      Content("json", <<item.value>>), args.output)

\* create_collection_wrapper, lines 120-132
create_collection_wrapper(args, collection) ==
    IF collection.kind = "raise"
    THEN Ran("create-collection", args, <<>>, <<>>, <<>>, collection)
    ELSE write_output("create-collection", args, <<>>,
                      Content("json", <<collection.value>>), args.output)

\* The command line: the options that are given, a dict by name.  An
\* option that the signature of the command does not hold, or a format that
\* is not an OutputFormat, ends the run before the wrapper is called.
usage_error(signature, given) ==
    IF \E name \in dict_keys(given) :
           \A i \in 1..Len(signature) : signature[i].name # name
    THEN Raise("UsageError", "No such option")
    ELSE IF "format" \in dict_keys(given)
            /\ dict_get(given, "format") \notin OutputFormat
    THEN Raise("UsageError", "Invalid value")
    ELSE Return(None)

\* the value of an option: the one that is given, or the default of the
\* signature
option(signature, given, name) ==
    IF name \in dict_keys(given) THEN dict_get(given, name)
    ELSE IF \E i \in 1..Len(signature) : signature[i].name = name
    THEN signature[CHOOSE i \in 1..Len(signature) :
                       signature[i].name = name].default
    ELSE empty

\* the arguments the wrapper is called with
bound_args(signature, given, collection) ==
    [collection |-> collection,
     output |-> option(signature, given, "output"),
     format |-> option(signature, given, "format"),
     given |-> dict_keys(given)]

----------------------------------------------------------------------------
(* Inputs *)

BARE == <<>>
LEADING_SLASH == <<SLASH>>
S3_BUCKET == PROTOCOL \o <<COLON, SLASH, SLASH>> \o BUCKET \o <<SLASH>>

\* n directory levels `x/`
RECURSIVE Dirs(_)
Dirs(n) == IF n = 0 THEN <<>> ELSE <<"x", SLASH>> \o Dirs(n - 1)

Prefixes ==
    {pre \o Dirs(n) : pre \in {BARE, LEADING_SLASH, S3_BUCKET},
                      n \in 0..MaxPrefixDirs}

Collections == {global_deterministic_10km, uk_deterministic_2km,
                <<"foo", "-", "bar">>}

REFERENCE_TIME == <<"20250614T0000Z">>
VALID_TIME == <<"20250614T0100Z">>
OTHER_VALID_TIME == <<"20250614T0200Z">>
HORIZON == <<"PT0001H00M">>

\* the reference-time directory, present or missing
ReferenceDirs == {REFERENCE_TIME \o <<SLASH>>, <<>>}

KnownParameters ==
    HeightParameters \cup NearSurfaceParameters
        \cup PressureLevelParameters \cup WholeAtmosphereParameters

\* variable segments of the file name: one known parameter of every theme,
\* two with a duration, and segments no table holds
SampleSegments ==
    { <<"temperature_at_screen_level">>,
      <<"precipitation_accumulation", "-", "PT01H">>,
      <<"precipitation_accumulation", "-", "PT03H">>,
      <<"cloud_amount_on_height_levels">>,
      <<"temperature_on_pressure_levels">>,
      <<"CAPE_surface">>,
      <<"precipitation_accumulation">>,
      <<"unknown_var">>,
      <<"unknown_var", "-", "foo">>,
      <<"unknown_var", "-", "PTfoo">>,
      <<"unknown_var", "-", "PT01H">>,
      <<"wind", "-", "gust", "-", "PT01H">> }

NC == <<DOT, "nc">>

FileName(segment, suffix) ==
    VALID_TIME \o <<DASH>> \o HORIZON \o <<DASH>> \o segment \o suffix

FileNames ==
    {FileName(seg, NC) : seg \in SampleSegments}
        \cup {FileName(seg, suffix) :
                 seg \in {<<"temperature_at_screen_level">>,
                          <<"precipitation_accumulation", "-", "PT01H">>},
                 suffix \in {<<>>, NC \o <<NL>>}}
        \cup { <<"file">> \o NC,
               VALID_TIME \o <<DASH, "temperature_at_screen_level">> \o NC }

Key(collection, reference_dir, file) ==
    collection \o <<SLASH>> \o reference_dir \o file

\* every known parameter under the bucket, in both collections
FixtureHrefs ==
    {S3_BUCKET \o Key(c, REFERENCE_TIME \o <<SLASH>>, FileName(p, NC)) :
        c \in {global_deterministic_10km, uk_deterministic_2km},
        p \in KnownParameters}

\* every key of ITEM_ASSETS under the bucket, in the collection of its model
ItemAssetHrefs ==
    {S3_BUCKET \o Key(IF model_ = Model_global THEN global_deterministic_10km
                      ELSE uk_deterministic_2km,
                      REFERENCE_TIME \o <<SLASH>>, FileName(p, NC)) :
        model_ \in Model,
        p \in UNION {ITEM_ASSETS[Model_global][theme_]
                         \cup ITEM_ASSETS[Model_uk][theme_] :
                      theme_ \in Theme}}

Paths ==
    {pre \o Key(c, r, f) : pre \in Prefixes, c \in Collections,
                           r \in ReferenceDirs, f \in FileNames}
        \cup FixtureHrefs \cup ItemAssetHrefs

ModelHints == {None} \cup Model
ThemeHints == {None, Theme_height}

\* arguments of _collect_assets
VariablesArgs ==
    { {<<"temperature_at_screen_level">>, <<"precipitation_accumulation">>,
       <<"CAPE_surface">>, <<"unknown_var">>},
      {<<"cloud_amount_on_height_levels">>} }
ValidTimeArgs == {None, OTHER_VALID_TIME}

----------------------------------------------------------------------------
(* The state machine *)

\* the listing obstore.list yields: one page holding the path
obstore_list == << << [path |-> href, last_modified |-> 0] >> >>

Init ==
    /\ href \in Paths
    /\ model \in ModelHints
    /\ theme \in ThemeHints
    /\ parsed = NotCalled
    /\ prop = NotCalled
    /\ collected = NotCalled
    /\ pages = obstore_list
    /\ created = NotCalled
    /\ cli = NotCalled

\* Href.parse(href, model, theme)
HrefParse ==
    /\ parsed = NotCalled
    /\ parsed' = parse(href, model, theme)
    /\ UNCHANGED <<href, model, theme, prop, collected, pages, created, cli>>

\* one read of a property of the Href that parse returned
Read(name) ==
    /\ parsed.kind = "return"
    /\ prop' = [kind |-> "read", name |-> name,
                outcome |-> getattr(parsed.value, name)]
    /\ prop' # prop
    /\ UNCHANGED <<href, model, theme, parsed, collected, pages, created, cli>>

ReadCollectionId == Read("collection_id")
ReadItemId == Read("item_id")
ReadDuration == Read("duration")
ReadVariable == Read("variable")
ReadStr == Read("__str__")

\* _collect_assets on the listing
CollectAssets ==
    /\ collected = NotCalled
    /\ \E variables \in VariablesArgs, valid_time \in ValidTimeArgs :
           collected' = [kind |-> "called",
                         variables |-> variables,
                         valid_time |-> valid_time,
                         outcome |-> collect_assets(obstore_list, variables, PROTOCOL,
                                                    BUCKET, valid_time)]
    /\ UNCHANGED <<href, model, theme, parsed, prop, pages, created, cli>>

Next ==
    \/ HrefParse
    \/ ReadCollectionId
    \/ ReadItemId
    \/ ReadDuration
    \/ ReadVariable
    \/ ReadStr
    \/ CollectAssets

Spec == Init /\ [][Next]_vars

----------------------------------------------------------------------------
(* The item assembler: inputs *)

\* the reference time of the requests and the valid times of the files
REFERENCE == datetime(1, 0)
VALID_1 == datetime(1, 1)
VALID_2 == datetime(1, 2)

HORIZON_1 == <<"PT0001H00M">>
HORIZON_2 == <<"PT0002H00M">>

\* what follows the listed prefix in a key under the requested reference
\* time, and in a key under a reference-time directory whose name only
\* starts with the requested one
SAME_REFERENCE == <<>>
OTHER_REFERENCE == <<DASH, "b">>

\* a key of the store, without the prefix that is listed
ListedKey(reference_rest, valid, horizon, segment) ==
    reference_rest \o <<SLASH>> \o strftime(valid) \o <<DASH>> \o horizon
        \o <<DASH>> \o segment \o NC

ListEntry(path, last_modified) ==
    [path |-> path, last_modified |-> last_modified]

\* the entries a listing is made of: a file of the surface collection, two
\* files of the same item and variable that differ in the duration suffix
\* and in the horizon, a file of a second valid time, files of the height
\* and the pressure collection, a file under another reference time and a
\* key that is no forecast file
ListEntries ==
    { ListEntry(ListedKey(SAME_REFERENCE, VALID_1, HORIZON_1,
                          <<"temperature_at_screen_level">>), 0),
      ListEntry(ListedKey(SAME_REFERENCE, VALID_1, HORIZON_1,
                          <<"precipitation_accumulation", "-", "PT01H">>), 0),
      ListEntry(ListedKey(SAME_REFERENCE, VALID_1, HORIZON_2,
                          <<"precipitation_accumulation", "-", "PT03H">>), 1),
      ListEntry(ListedKey(SAME_REFERENCE, VALID_2, HORIZON_2,
                          <<"temperature_at_screen_level">>), 0),
      ListEntry(ListedKey(SAME_REFERENCE, VALID_1, HORIZON_1,
                          <<"cloud_amount_on_height_levels">>), 0),
      ListEntry(ListedKey(SAME_REFERENCE, VALID_1, HORIZON_1,
                          <<"temperature_on_pressure_levels">>), 0),
      ListEntry(ListedKey(OTHER_REFERENCE, VALID_1, HORIZON_1,
                          <<"temperature_on_pressure_levels">>), 0),
      ListEntry(<<SLASH, "file">> \o NC, 0) }

\* the listings of n entries or fewer
EntrySequences(n) == UNION {[1..k -> ListEntries] : k \in 0..n}

\* obstore.list yields the entries in chunks of chunk_size or fewer
Chunks(entries, chunk_size) ==
    [c \in 1..((Len(entries) + chunk_size - 1) \div chunk_size) |->
        SubSeq(entries, (c - 1) * chunk_size + 1,
               IF c * chunk_size < Len(entries) THEN c * chunk_size
               ELSE Len(entries))]

\* the chunk sizes of the listings: a page for every entry, or pages of two
ChunkSizes == {1, 2}

\* the listings of n entries or fewer, in pages
Listings(n) ==
    {Chunks(entries, chunk_size) :
        entries \in EntrySequences(n), chunk_size \in ChunkSizes}

\* obstore.list(prefix=key_prefix): the keys of the store that start with
\* the prefix
obstore_list_prefix(stream, prefix) ==
    [p \in 1..Len(stream) |->
        [i \in 1..Len(stream[p]) |->
            ListEntry(prefix \o stream[p][i].path,
                      stream[p][i].last_modified)]]

\* the collections asked for; the last one names no theme
CollectionArgs ==
    { <<"met", "-", "office", "-", "global", "-", "deterministic", "-",
        "10km", "-", "surface">>,
      <<"met", "-", "office", "-", "global", "-", "deterministic", "-",
        "10km", "-", "height">>,
      <<"met", "-", "office", "-", "global", "-", "deterministic", "-",
        "10km", "-", "pressure">>,
      <<"met", "-", "office", "-", "uk", "-", "deterministic", "-", "2km",
        "-", "pressure">>,
      <<"met", "-", "office", "-", "global", "-", "deterministic", "-",
        "10km">> }

----------------------------------------------------------------------------
(* The item assembler: the state machine *)

InitItems ==
    /\ href = <<>>
    /\ model = None
    /\ theme = None
    /\ parsed = NotCalled
    /\ prop = NotCalled
    /\ collected = NotCalled
    /\ pages \in Listings(MaxEntries)
    /\ created = NotCalled
    /\ cli = NotCalled

\* create_item(collection, reference_time, valid_time) on a store that
\* holds, under the listed prefix, the keys of `pages`
CreateItem ==
    /\ created = NotCalled
    /\ \E collection \in CollectionArgs :
           created' = [kind |-> "called",
                       op |-> "create_item",
                       collection |-> collection,
                       key_prefix |-> key_prefix(collection, REFERENCE),
                       outcome |->
                           create_item(
                               obstore_list_prefix(
                                   pages, key_prefix(collection, REFERENCE)),
                               collection, REFERENCE, VALID_1, PROTOCOL,
                               BUCKET, FALSE)]
    /\ UNCHANGED <<href, model, theme, parsed, prop, collected, pages, cli>>

\* create_items_for_reference_time(collection, reference_time) on a store
\* that holds, under the listed prefix, the keys of `pages`
CreateItemsForReferenceTime ==
    /\ created = NotCalled
    /\ \E collection \in CollectionArgs :
           created' = [kind |-> "called",
                       op |-> "create_items_for_reference_time",
                       collection |-> collection,
                       key_prefix |-> key_prefix_for_reference_time(collection, REFERENCE),
                       outcome |->
                           create_items_for_reference_time(
                               obstore_list_prefix(
                                   pages, key_prefix_for_reference_time(collection, REFERENCE)),
                               collection, REFERENCE, PROTOCOL, BUCKET,
                               FALSE)]
    /\ UNCHANGED <<href, model, theme, parsed, prop, collected, pages, cli>>

NextItems ==
    \/ CreateItem
    \/ CreateItemsForReferenceTime

SpecItems == InitItems /\ [][NextItems]_vars

\* The calls on listings of fewer kinds of keys: two files of one item, a
\* file of a second item, a file of another collection under another
\* reference time and a key that is no forecast file.
OrderEntries ==
    { ListEntry(ListedKey(SAME_REFERENCE, VALID_1, HORIZON_1,
                          <<"temperature_at_screen_level">>), 0),
      ListEntry(ListedKey(SAME_REFERENCE, VALID_1, HORIZON_1,
                          <<"precipitation_accumulation", "-", "PT01H">>), 0),
      ListEntry(ListedKey(SAME_REFERENCE, VALID_1, HORIZON_1,
                          <<"precipitation_accumulation", "-", "PT03H">>), 1),
      ListEntry(ListedKey(SAME_REFERENCE, VALID_2, HORIZON_2,
                          <<"temperature_at_screen_level">>), 0),
      ListEntry(ListedKey(OTHER_REFERENCE, VALID_1, HORIZON_1,
                          <<"temperature_on_pressure_levels">>), 0),
      ListEntry(<<SLASH, "file">> \o NC, 0) }

OrderListings(n) ==
    {Chunks(entries, chunk_size) :
        entries \in UNION {[1..k -> OrderEntries] : k \in 0..n},
        chunk_size \in ChunkSizes}

InitOrder ==
    /\ href = <<>>
    /\ model = None
    /\ theme = None
    /\ parsed = NotCalled
    /\ prop = NotCalled
    /\ collected = NotCalled
    /\ pages \in OrderListings(MaxEntries)
    /\ created = NotCalled
    /\ cli = NotCalled

SpecOrder == InitOrder /\ [][NextItems]_vars

----------------------------------------------------------------------------
(* The command line: the state machine *)

\* the entries a listing is made of: files of two valid times, a file whose
\* valid time is no time, and a key that is no forecast file
CliEntries ==
    { ListEntry(ListedKey(SAME_REFERENCE, VALID_1, HORIZON_1,
                          <<"temperature_at_screen_level">>), 0),
      ListEntry(ListedKey(SAME_REFERENCE, VALID_2, HORIZON_2,
                          <<"temperature_at_screen_level">>), 0),
      ListEntry(<<SLASH, "20251022T9900Z", DASH>> \o HORIZON_1
                    \o <<DASH, "temperature_at_screen_level">> \o NC, 0),
      ListEntry(<<SLASH, "file">> \o NC, 0) }

CliListings(n) ==
    {Chunks(entries, chunk_size) :
        entries \in UNION {[1..k -> CliEntries] : k \in 0..n},
        chunk_size \in ChunkSizes}

\* the collections asked for: one that holds the listed files and one that
\* holds none of them
CliCollections ==
    { <<"met", "-", "office", "-", "global", "-", "deterministic", "-",
        "10km", "-", "surface">>,
      <<"met", "-", "office", "-", "global", "-", "deterministic", "-",
        "10km", "-", "height">> }

\* the options given on the command line
CliOptions ==
    { <<>>,
      <<[key |-> "output", value |-> "items.json"]>>,
      <<[key |-> "format", value |-> "ndjson"]>>,
      <<[key |-> "format", value |-> "geojson"]>>,
      <<[key |-> "format", value |-> "xml"]>>,
      <<[key |-> "output", value |-> "items.json"],
        [key |-> "format", value |-> "geojson"]>> }

\* create_cli_app is entered: cli_params is built, no command is registered
InitCli ==
    /\ href = <<>>
    /\ model = None
    /\ theme = None
    /\ parsed = NotCalled
    /\ prop = NotCalled
    /\ collected = NotCalled
    /\ pages \in CliListings(MaxEntries)
    /\ created = NotCalled
    /\ cli = App("create_cli_app", cli_params, <<>>, NotCalled)

\* create_cli_app, lines 116-137
AddCreateCollection ==
    /\ cli.pc = "create_cli_app"
    /\ cli' = add_command(cli, "create_collection", "create-collection",
                          cli.cli_params)
    /\ UNCHANGED <<href, model, theme, parsed, prop, collected, pages,
                   created>>

\* create_cli_app, lines 139-160
AddCreateItem ==
    /\ cli.pc = "create-collection"
    /\ cli' = add_command(cli, "create_item", "create-item", cli.cli_params)
    /\ UNCHANGED <<href, model, theme, parsed, prop, collected, pages,
                   created>>

\* create_cli_app, lines 162-205
AddCreateItems ==
    /\ cli.pc = "create-item"
    /\ cli' = add_command(cli, "create_items", "create-items",
                          list_insert(cli.cli_params, 1, format_param))
    /\ UNCHANGED <<href, model, theme, parsed, prop, collected, pages,
                   created>>

\* the command `command` of the app is run with the options `given`: the
\* wrapper is called, and has done `ran`, when the options are accepted
run_command(app, command, collection, given, ran) ==
    LET signature == dict_get(app.commands, command)
        usage == usage_error(signature, given)
    IN  IF usage.kind = "raise"
        THEN Ran(command, bound_args(signature, given, collection),
                 <<>>, <<>>, <<>>, usage)
        ELSE ran

\* met-office-stac create-collection <collection>
RunCreateCollection ==
    /\ cli.pc = "create-items"
    /\ cli.run = NotCalled
    /\ \E collection \in CliCollections, given \in CliOptions :
           cli' = [cli EXCEPT !.run =
               run_command(
                   cli, "create-collection", collection, given,
                   create_collection_wrapper(
                       bound_args(dict_get(cli.commands, "create-collection"),
                                  given, collection),
                       provider_create_collection(collection)))]
    /\ UNCHANGED <<href, model, theme, parsed, prop, collected, pages,
                   created>>

\* met-office-stac create-item <collection> <reference_time> <valid_time>
RunCreateItem ==
    /\ cli.pc = "create-items"
    /\ cli.run = NotCalled
    /\ \E collection \in CliCollections, given \in CliOptions :
           cli' = [cli EXCEPT !.run =
               run_command(
                   cli, "create-item", collection, given,
                   create_item_wrapper(
                       bound_args(dict_get(cli.commands, "create-item"),
                                  given, collection),
                       provider_create_item(
                           obstore_list_prefix(
                               pages, key_prefix(collection, REFERENCE)),
                           collection, REFERENCE, VALID_1, PROTOCOL,
                           BUCKET)))]
    /\ UNCHANGED <<href, model, theme, parsed, prop, collected, pages,
                   created>>

\* met-office-stac create-items <collection> <reference_time>
RunCreateItems ==
    /\ cli.pc = "create-items"
    /\ cli.run = NotCalled
    /\ \E collection \in CliCollections, given \in CliOptions :
           cli' = [cli EXCEPT !.run =
               run_command(
                   cli, "create-items", collection, given,
                   create_items_wrapper(
                       bound_args(dict_get(cli.commands, "create-items"),
                                  given, collection),
                       provider_create_items(
                           obstore_list_prefix(
                               pages,
                               key_prefix_for_reference_time(collection,
                                                             REFERENCE)),
                           collection, REFERENCE, PROTOCOL, BUCKET)))]
    /\ UNCHANGED <<href, model, theme, parsed, prop, collected, pages,
                   created>>

NextCli ==
    \/ AddCreateCollection
    \/ AddCreateItem
    \/ AddCreateItems
    \/ RunCreateCollection
    \/ RunCreateItem
    \/ RunCreateItems

SpecCli == InitCli /\ [][NextCli]_vars

----------------------------------------------------------------------------
(* Properties of the path classifier *)

\* the captures of PATH_REGEX on the path of the state
matches == PATH_REGEX_match(href)

\* the captures of PATH_PATTERN on the path of the state
pattern == PATH_PATTERN_match(href)

\* the key of the claims' scenario
BareKey ==
    <<"global", "-", "deterministic", "-", "10km", "/", "20250614T0000Z", "/",
      "20250614T0100Z", "-", "PT0001H00M", "-", "temperature_at_screen_level",
      ".", "nc">>

\* C1: Href.parse of the bare key
\* global-deterministic-10km/20250614T0000Z/20250614T0100Z-PT0001H00M-temperature_at_screen_level.nc
\* (no scheme, no bucket, no leading "/") returns a descriptor with model
\* Global, theme NearSurface, variable temperature_at_screen_level, no
\* duration and item_id 20250614T0000Z-20250614T0100Z, and so does the same
\* key behind <scheme>://<bucket>/.
C1_BareKeyParses ==
    (/\ parsed # NotCalled
     /\ model = None
     /\ theme = None
     /\ href \in {BareKey, S3_BUCKET \o BareKey})
        => /\ parsed.kind = "return"
           /\ parsed.value.model = <<"global">>
           /\ parsed.value.theme = <<"near", "-", "surface">>
           /\ parsed.value.parameter = <<"temperature_at_screen_level">>
           /\ duration(parsed.value) = Return(None)
           /\ item_id(parsed.value)
                  = Return(<<"20250614T0000Z", "-", "20250614T0100Z">>)

\* The structural pattern
\* .../<collection>/<reference_time>/<valid_time>-<forecast_horizon>-<variable>[-<duration>].nc
\* stated as a decomposition of the path: three "/" and two "-" in this
\* order, non-empty segments between them, no "/" in the two directories and
\* no "-" in the two time segments, and .nc at the end of the line.
Positions(s, t, from) == {k \in from..Len(s) : s[k] = t}

NoneIn(s, t, i, j) == \A k \in i..j : s[k] # t

EndsLine(s, e) ==
    \/ SubSeq(s, e + 1, Len(s)) = <<".", "nc">>
    \/ SubSeq(s, e + 1, Len(s)) = <<".", "nc", "\n">>

StructuralForm(s) ==
    \E p \in Positions(s, "/", 1) :
      /\ NoneIn(s, "\n", 1, p - 1)
      /\ \E q \in Positions(s, "/", p + 2) :
           /\ NoneIn(s, "/", p + 1, q - 1)
           /\ \E r \in Positions(s, "/", q + 2) :
                /\ NoneIn(s, "/", q + 1, r - 1)
                /\ \E a \in Positions(s, "-", r + 2) :
                     /\ NoneIn(s, "-", r + 1, a - 1)
                     /\ \E b \in Positions(s, "-", a + 2) :
                          /\ NoneIn(s, "-", a + 1, b - 1)
                          /\ \E e \in (b + 1)..Len(s) :
                               /\ NoneIn(s, "\n", b + 1, e)
                               /\ EndsLine(s, e)

\* C2: Href.parse of a string that does not have the structural form fails
\* with the invalid-file-name error and returns no descriptor, whatever the
\* model and theme hints.
C2_NoMatchFails ==
    (parsed # NotCalled /\ ~StructuralForm(href))
        => parsed = Raise("ValueError", "Invalid file name")

\* a path with the .nc suffix missing fails although both hints are given
C2_Witness ==
    /\ href = S3_BUCKET
                \o <<"global", "-", "deterministic", "-", "10km", "/",
                     "20250614T0000Z", "/", "20250614T0100Z", "-",
                     "PT0001H00M", "-", "temperature_at_screen_level">>
    /\ model # None
    /\ theme # None
    /\ parsed = Raise("ValueError", "Invalid file name")

\* C3: without a model hint, on a path that matches, an unknown collection
\* segment fails with the invalid-collection error, a known one never does,
\* and a returned descriptor has model Global exactly when the segment is
\* global-deterministic-10km and UK exactly when it is uk-deterministic-2km.
C3_ModelFromCollection ==
    (parsed # NotCalled /\ model = None /\ matches.matched)
        => LET c == matches.collection
               g == <<"global", "-", "deterministic", "-", "10km">>
               u == <<"uk", "-", "deterministic", "-", "2km">>
           IN  /\ (c \notin {g, u})
                     <=> (parsed = Raise("ValueError", "Invalid collection"))
               /\ parsed.kind = "return"
                     => /\ (parsed.value.model = <<"global">>) <=> (c = g)
                        /\ (parsed.value.model = <<"uk">>) <=> (c = u)

\* the unknown collection foo-bar fails, no model hint given
C3_Witness ==
    /\ model = None
    /\ matches.matched
    /\ matches.collection = <<"foo", "-", "bar">>
    /\ parsed = Raise("ValueError", "Invalid collection")

\* the theme the four sets give a variable segment, None when no set holds it
ThemeOfSets(p) ==
    IF p \in HeightParameters THEN <<"height">>
    ELSE IF p \in NearSurfaceParameters THEN <<"near", "-", "surface">>
    ELSE IF p \in PressureLevelParameters THEN <<"pressure", "-", "level">>
    ELSE IF p \in WholeAtmosphereParameters THEN <<"whole", "-", "atmosphere">>
    ELSE None

\* the model of the call is resolved: a hint, or a known collection segment
ModelResolved ==
    \/ model # None
    \/ matches.collection \in {<<"global", "-", "deterministic", "-", "10km">>,
                               <<"uk", "-", "deterministic", "-", "2km">>}

\* C4 as stated: without a theme hint, on a path that matches, a variable in
\* none of the four theme sets fails with the unknown-variable error, and a
\* variable in one of the sets gives the descriptor that set's theme.
C4_UnknownVariableFails ==
    (parsed # NotCalled /\ theme = None /\ matches.matched)
        => IF ThemeOfSets(matches.parameter) = None
           THEN parsed = Raise("ValueError", "Unknown parameter")
           ELSE parsed.kind = "return"
                   => parsed.value.theme = ThemeOfSets(matches.parameter)

\* C4 amended: the unknown-variable error is raised when the model is
\* resolved; when it is not, the invalid-collection error comes first.  A
\* variable in one of the sets gives the descriptor that set's theme.
C4_UnknownVariableFailsOnceModelResolved ==
    (parsed # NotCalled /\ theme = None /\ matches.matched)
        => IF ~ModelResolved
           THEN parsed = Raise("ValueError", "Invalid collection")
           ELSE IF ThemeOfSets(matches.parameter) = None
           THEN parsed = Raise("ValueError", "Unknown parameter")
           ELSE /\ parsed.kind = "return"
                /\ parsed.value.theme = ThemeOfSets(matches.parameter)

\* an unknown variable under a known collection fails, no theme hint given
C4_Witness ==
    /\ theme = None
    /\ matches.matched
    /\ matches.parameter = <<"unknown_var">>
    /\ parsed = Raise("ValueError", "Unknown parameter")

\* C5: a model hint is the descriptor's model and the collection segment is
\* not validated; a theme hint is the descriptor's theme and the variable is
\* not looked up; with both hints every matching path returns; the other
\* five fields are those of the call without hints.
C5_HintsOverride ==
    LET m == matches
    IN  (parsed # NotCalled /\ m.matched)
            => /\ model # None
                     => /\ parsed # Raise("ValueError", "Invalid collection")
                        /\ parsed.kind = "return" => parsed.value.model = model
               /\ theme # None
                     => /\ parsed # Raise("ValueError", "Unknown parameter")
                        /\ parsed.kind = "return" => parsed.value.theme = theme
               /\ (model # None /\ theme # None) => parsed.kind = "return"
               /\ parsed.kind = "return"
                     => LET d == parsed.value
                            plain == parse(href, None, None)
                        IN  /\ d.href = href
                            /\ d.parameter = m.parameter
                            /\ d.reference_datetime = m.reference_datetime
                            /\ d.valid_datetime = m.valid_datetime
                            /\ d.forecast_horizon = m.forecast_horizon
                            /\ plain.kind = "return"
                                 => /\ d.href = plain.value.href
                                    /\ d.parameter = plain.value.parameter
                                    /\ d.reference_datetime
                                           = plain.value.reference_datetime
                                    /\ d.valid_datetime
                                           = plain.value.valid_datetime
                                    /\ d.forecast_horizon
                                           = plain.value.forecast_horizon

\* both hints given, unknown collection and unknown variable: a descriptor
C5_Witness ==
    /\ model = <<"uk">>
    /\ theme = <<"height">>
    /\ matches.matched
    /\ matches.collection = <<"foo", "-", "bar">>
    /\ matches.parameter = <<"unknown_var">>
    /\ parsed.kind = "return"
    /\ parsed.value.model = <<"uk">>
    /\ parsed.value.theme = <<"height">>

\* the item ids of the mapping _collect_assets returned
CollectedItemIds == dict_keys(collected.outcome.value)

\* Href.item_id was read
ItemIdRead == prop.kind = "read" /\ prop.name = "item_id"

\* _collect_assets accepted the path
Accepted == collected.kind = "called" /\ collected.outcome.kind = "return"

\* both item ids are the reference-time capture, "-", the valid-time capture
ItemIdIsJoinedCaptures ==
    /\ ItemIdRead
          => prop.outcome = Return(matches.reference_datetime \o <<"-">>
                                       \o matches.valid_datetime)
    /\ Accepted
          => CollectedItemIds = {pattern.reference_time \o <<"-">>
                                     \o pattern.valid_time}

\* C6: item_id is the reference-time capture, "-", the valid-time capture,
\* verbatim, and Href.item_id and _collect_assets give the same item_id for
\* the same path.
C6_SameItemId ==
    /\ ItemIdIsJoinedCaptures
    /\ (ItemIdRead /\ Accepted) => CollectedItemIds = {prop.outcome.value}

\* the variable segment of the file name is <stem>-PTnnH
Seg == matches.parameter

Suffixed ==
    LET m == matches
    IN  /\ m.matched
        /\ Len(m.parameter) = 3
        /\ m.parameter[2] = "-"
        /\ m.parameter[3] \in {"PT01H", "PT03H", "PT06H"}

\* the assets of every item _collect_assets returned
CollectedAssets ==
    {collected.outcome.value[i].value : i \in 1..Len(collected.outcome.value)}

\* the duration of the file name is read through Href.duration and is the
\* forecast:duration of the asset
DurationIsSuffix ==
    /\ (prop.kind = "read" /\ prop.name = "duration")
          => prop.outcome = Return(<<Seg[3]>>)
    /\ Accepted
          => \A assets \in CollectedAssets :
                 \A k \in dict_keys(assets) :
                     dict_get(assets, k).extra_fields["forecast:duration"]
                         = <<Seg[3]>>

\* the asset key is the stem
AssetKeyIsStem ==
    Accepted => \A assets \in CollectedAssets : dict_keys(assets) = {<<Seg[1]>>}

\* C7 as stated: for a file name whose variable segment carries a duration
\* suffix the duration is split off, and the stripped name is the variable
\* stored in the descriptor and the asset key.
C7_DurationStripped ==
    Suffixed
        => /\ DurationIsSuffix
           /\ AssetKeyIsStem
           /\ parsed.kind = "return" => parsed.value.parameter = <<Seg[1]>>

\* C7 amended: the stripped name is the asset key of _collect_assets; the
\* descriptor of Href.parse stores the whole segment, suffix included, and
\* the theme is looked up under the whole segment.
C7_DurationStrippedFromAssetKey ==
    Suffixed
        => /\ DurationIsSuffix
           /\ AssetKeyIsStem
           /\ parsed.kind = "return"
                 => /\ parsed.value.parameter = <<Seg[1], "-", Seg[3]>>
                    /\ theme = None
                          => parsed.value.theme
                                 = ThemeOfSets(<<Seg[1], "-", Seg[3]>>)

\* precipitation_accumulation-PT01H: asset key precipitation_accumulation,
\* duration PT01H, descriptor parameter the whole segment
C7_Witness ==
    /\ Suffixed
    /\ Seg = <<"precipitation_accumulation", "-", "PT01H">>
    /\ Accepted
    /\ \A assets \in CollectedAssets :
           dict_keys(assets) = {<<"precipitation_accumulation">>}
    /\ parsed.kind = "return"
    /\ parsed.value.theme = <<"near", "-", "surface">>
    /\ prop.kind = "read"
    /\ prop.name = "duration"
    /\ prop.outcome = Return(<<"PT01H">>)

\* C8: Href.duration of a descriptor is the suffix behind the "-" when the
\* segment has exactly one "-" and the suffix starts with PT; in every other
\* case (no "-", a suffix that does not start with PT, more than one "-") it
\* is None, and no fault is raised.
C8_DurationSplitRule ==
    (prop.kind = "read" /\ prop.name = "duration")
        => LET seg == parsed.value.parameter
               k == Find(seg, "-", 1)
               suffix == SubSeq(seg, k + 1, Len(seg))
           IN  prop.outcome
                   = IF Count(seg, "-") = 1 /\ StartsWithPT(suffix)
                     THEN Return(suffix)
                     ELSE Return(None)

\* the lists of Theme.from_parameter that hold a parameter
ThemesOf(parameter) ==
    {i \in 1..4 : parameter \in from_parameter_cases[i].patterns}

\* the theme the lookup gives when the four lists are tested in the order
\* `o` and `held` are the lists that hold the parameter
ThemeInOrder(o, held) ==
    LET is == {i \in 1..4 : o[i] \in held}
    IN  IF is = {} THEN None ELSE from_parameter_cases[o[Min(is)]].value

\* C9: the four theme sets of Theme.from_parameter are pairwise disjoint: no
\* variable segment of a path is in two of them, so its theme is the same in
\* whatever order the lists are tested, and it is the theme of the descriptor
\* parse returns.
C9_ThemeSetsDisjoint ==
    LET m == matches
        held == ThemesOf(m.parameter)
        in_code_order == ThemeInOrder(<<1, 2, 3, 4>>, held)
    IN  m.matched
            => /\ Cardinality(held) <= 1
               /\ \A o \in Permutations(1..4) :
                      ThemeInOrder(o, held) = in_code_order
               /\ (parsed.kind = "return" /\ theme = None)
                      => parsed.value.theme = in_code_order

\* a descriptor whose theme came from the lookup
C9_Witness ==
    /\ theme = None
    /\ parsed.kind = "return"
    /\ Seg = <<"temperature_on_height_levels">>
    /\ parsed.value.theme = <<"height">>

\* hrefs <scheme>://<bucket>/<collection>/<reference_time>/<file> with a
\* known collection and a known variable segment
ValidKeys ==
    {<<"s3", ":", "/", "/", "met", "-", "office", "-", "atmospheric", "-",
       "model", "-", "data", "/">>
        \o c \o <<"/", "20250614T0000Z", "/", "20250614T0100Z", "-",
                  "PT0001H00M", "-">> \o p \o <<".", "nc">> :
        c \in {<<"global", "-", "deterministic", "-", "10km">>,
               <<"uk", "-", "deterministic", "-", "2km">>},
        p \in KnownParameters}

\* C10: on a valid key Href.parse returns a descriptor, and reading item_id,
\* collection_id, duration and variable of it raises nothing.
C10_TotalOnValidKeys ==
    href \in ValidKeys
        => /\ parsed # NotCalled => parsed.kind = "return"
           /\ prop.kind = "read" => prop.outcome.kind = "return"

\* a valid key of the whole-atmosphere theme with a duration, parsed without
\* hints and its duration read
C10_Witness ==
    /\ href \in ValidKeys
    /\ model = None
    /\ theme = None
    /\ Seg = <<"lightning_flash_accumulation", "-", "PT01H">>
    /\ parsed.kind = "return"
    /\ prop.kind = "read"
    /\ prop.name = "duration"
    /\ prop.outcome = Return(<<"PT01H">>)

----------------------------------------------------------------------------
(* Properties of the hrefs *)

\* the hrefs of the assets _collect_assets returned
CollectedHrefs ==
    UNION {{dict_get(assets, k).href : k \in dict_keys(assets)} :
              assets \in CollectedAssets}

\* the descriptor of Href.parse stores the path as it was given, and its
\* string form is that path
DescriptorKeepsPath ==
    /\ parsed.kind = "return" => parsed.value.href = href
    /\ (prop.kind = "read" /\ prop.name = "__str__")
          => prop.outcome = Return(href)

\* C11: for every accepted path the href of the descriptor, the string form
\* of the descriptor and the href of the asset are the path that was
\* classified, with no prefix added and nothing dropped.
C11_HrefRoundTrip ==
    /\ DescriptorKeepsPath
    /\ Accepted => CollectedHrefs = {href}

\* the captures that PATH_PATTERN yields behind the optional bucket group
KeyCaptures(m) ==
    <<m.matched, m.collection, m.reference_time, m.valid_time,
      m.forecast_horizon, m.variable, m.duration>>

\* C11 amended: the descriptor and its string form are the path; the asset
\* href is <protocol>://<bucket>/ followed by the path, unchanged, and for a
\* path without a protocol PATH_PATTERN reads the same captures from the
\* asset href as from the path.
C11_AssetHrefIsBucketAndPath ==
    /\ DescriptorKeepsPath
    /\ Accepted
          => /\ CollectedHrefs
                    = {PROTOCOL \o <<":", "/", "/">> \o BUCKET \o <<"/">>
                           \o href}
             /\ pattern.protocol = None
                   => \A h \in CollectedHrefs :
                          KeyCaptures(PATH_PATTERN_match(h))
                              = KeyCaptures(pattern)

\* a key ending in a newline, parsed, read as a string and collected
C11_Witness ==
    /\ href[Len(href)] = NL
    /\ parsed.kind = "return"
    /\ prop.kind = "read"
    /\ prop.name = "__str__"
    /\ prop.outcome = Return(href)
    /\ Accepted
    /\ pattern.protocol = None

----------------------------------------------------------------------------
(* Properties of the item assembler *)

\* the entries obstore.list yielded to the call, page after page
RECURSIVE Flatten(_)
Flatten(stream) ==
    IF stream = <<>> THEN <<>> ELSE Head(stream) \o Flatten(Tail(stream))

Listed == Flatten(obstore_list_prefix(pages, created.key_prefix))

\* the valid_time and the variables the call hands to _collect_assets
RequestedValidTime ==
    IF created.op = "create_item" THEN strftime(VALID_1) ELSE None

RequestedVariables == get_collection_variables(created.collection)

\* the call was made with a collection that has a variable table
Called == created.kind = "called" /\ RequestedVariables.kind = "return"

\* the call returned
Created == created.kind = "called" /\ created.outcome.kind = "return"

\* the items the call returned
Items ==
    IF created.op = "create_item" THEN <<created.outcome.value>>
    ELSE created.outcome.value

\* the asset keys of the n-th item
AssetKeys(n) == dict_keys(Items[n].assets)

\* What _collect_assets reads of a listed entry: the captures of
\* PATH_PATTERN, whether the entry passes the pattern and the valid_time
\* that is asked for (candidate), whether it passes the variable filter as
\* well (accepted), and the item_id it is filed under.
Entry(result, valid_time, variables) ==
    LET captures == PATH_PATTERN_match(result.path)
        candidate == /\ captures.matched
                     /\ valid_time # None => captures.valid_time = valid_time
    IN  [path |-> result.path,
         last_modified |-> result.last_modified,
         captures |-> captures,
         candidate |-> candidate,
         accepted |-> /\ candidate
                      /\ variables.kind = "return"
                      /\ captures.variable \in variables.value,
         item_id |-> IF captures.matched
                     THEN captures.reference_time \o <<"-">>
                              \o captures.valid_time
                     ELSE None]

\* the listed entries of the call, in listing order
EntriesIn(listed, valid_time, variables) ==
    [i \in 1..Len(listed) |-> Entry(listed[i], valid_time, variables)]

Entries == EntriesIn(Listed, RequestedValidTime, RequestedVariables)

\* the entries _collect_assets does not skip
AcceptedEntries(e) == {i \in DOMAIN e : e[i].accepted}

\* the accepted entries of one item
Group(e, id) == {i \in DOMAIN e : e[i].accepted /\ e[i].item_id = id}

\* the href of the asset that is built from a listed path
AssetHref(path) ==
    PROTOCOL \o <<COLON, SLASH, SLASH>> \o BUCKET \o <<SLASH>> \o path

\* accepted entries of one item with n pairwise distinct variables give one
\* item of n assets keyed by the variables
OneAssetPerVariable(e) ==
    \A id \in {e[i].item_id : i \in AcceptedEntries(e)} :
        LET names == {e[i].captures.variable : i \in Group(e, id)}
            of == {n \in 1..Len(Items) : Items[n].id = id}
        IN  Cardinality(names) = Cardinality(Group(e, id))
                => /\ Cardinality(of) = 1
                   /\ \A n \in of :
                          /\ Len(Items[n].assets) = Cardinality(Group(e, id))
                          /\ AssetKeys(n) = names

\* C12: accepted entries that share one item_id and have n pairwise
\* distinct variables give exactly one item, and its assets mapping has
\* exactly n entries, keyed by the variables.
C12_OneAssetPerVariable == Created => OneAssetPerVariable(Entries)

\* two files of one item with two variables: one item of two assets
C12_Witness ==
    /\ Created
    /\ Cardinality(AcceptedEntries(Entries)) = 2
    /\ Len(Items) = 1
    /\ AssetKeys(1)
           = {<<"temperature_at_screen_level">>,
              <<"precipitation_accumulation">>}

\* the place in the listing of the first accepted entry of an item
FirstOf(e, id) == Min(Group(e, id))

\* one item for every item_id of the accepted entries, in the order of
\* first appearance, each with the horizon of one of its files
OneItemPerItemIdInOrder(e) ==
    /\ {Items[n].id : n \in 1..Len(Items)}
           = {e[i].item_id : i \in AcceptedEntries(e)}
    /\ \A m, n \in 1..Len(Items) :
           m < n => FirstOf(e, Items[m].id) < FirstOf(e, Items[n].id)
    /\ \A n \in 1..Len(Items) :
           Items[n].properties["forecast:horizon"]
               \in {e[i].captures.forecast_horizon :
                       i \in Group(e, Items[n].id)}

\* C13: create_items_for_reference_time returns exactly one item for every
\* distinct item_id among the accepted entries, in the order in which the
\* item_ids first appear in the listing, and the forecast:horizon of every
\* item is the horizon token of files of that item.
C13_OneItemPerItemIdInOrder ==
    (Created /\ created.op = "create_items_for_reference_time")
        => OneItemPerItemIdInOrder(Entries)

\* two pages, page i holding the files of horizon i: two items, item i
\* with horizon i
C13_Witness ==
    /\ Created
    /\ created.op = "create_items_for_reference_time"
    /\ Len(pages) = 2
    /\ Len(Items) = 2
    /\ Items[1].properties["forecast:horizon"] = HORIZON_1
    /\ Items[2].properties["forecast:horizon"] = HORIZON_2

\* the accepted entries of an item that carry one variable
SameKey(e, id, variable_) ==
    {i \in Group(e, id) : e[i].captures.variable = variable_}

\* every asset is the one of the last entry with its item_id and variable
AssetsOfLastEntries(e) ==
    \A n \in 1..Len(Items) :
        /\ Cardinality(AssetKeys(n)) = Len(Items[n].assets)
        /\ \A k \in 1..Len(Items[n].assets) :
               LET last == e[Max(SameKey(e, Items[n].id,
                                         Items[n].assets[k].key))]
                   asset == Items[n].assets[k].value
               IN  /\ asset.href = AssetHref(last.path)
                   /\ asset.extra_fields["updated"]
                          = isoformat(last.last_modified)
                   /\ "forecast:duration" \in DOMAIN asset.extra_fields
                          <=> last.captures.duration # None

\* C14: when several accepted entries have one (item_id, variable) pair,
\* the item holds a single asset under that variable, with the href and
\* the extra fields of the entry that is listed last; the duplicate raises
\* no error and every other asset is the one of its own entry.
C14_LastWriteWins ==
    /\ Created => AssetsOfLastEntries(Entries)
    /\ (Called /\ created.op = "create_items_for_reference_time"
            /\ AcceptedEntries(Entries) # {})
           => Created

\* the first asset is built from the later of two files of one variable,
\* and another variable of the item has its asset
OverwrittenAsset(e) ==
    /\ Cardinality(AcceptedEntries(e)) = 3
    /\ \E i, j \in SameKey(e, Items[1].id, Items[1].assets[1].key) :
           /\ i < j
           /\ e[i].path # e[j].path
           /\ Items[1].assets[1].value.href = AssetHref(e[j].path)

\* a variable listed twice and another variable of the same item: two
\* assets, the first from the later of the two entries
C14_Witness ==
    /\ Created
    /\ Len(Items) = 1
    /\ Len(Items[1].assets) = 2
    /\ OverwrittenAsset(Entries)

\* C15: when the listing is empty, or every listed key is skipped (it
\* does not match the pattern, it has another valid_time than the one
\* create_item asks for, or its variable is outside the set of the
\* collection), the call raises the no-assets error: it returns no item and
\* no empty list.
C15_NoAssetsFails ==
    (Called /\ AcceptedEntries(Entries) = {})
        => created.outcome = Raise("ValueError", "No assets found")

\* no entry is accepted, and there is one skipped for each reason
SkippedForEachReason(e) ==
    /\ AcceptedEntries(e) = {}
    /\ \E i, j, k \in DOMAIN e :
           /\ ~e[i].captures.matched
           /\ e[j].captures.matched /\ ~e[j].candidate
           /\ e[j].captures.variable \in RequestedVariables.value
           /\ e[k].candidate /\ ~e[k].accepted

\* create_item on a listing of three keys, one skipped for each reason
C15_Witness ==
    /\ Called
    /\ created.op = "create_item"
    /\ SkippedForEachReason(Entries)
    /\ created.outcome.kind = "raise"

\* the listed key matches PATH_PATTERN
Matches(result) == PATH_PATTERN_match(result.path).matched

\* what the call returns or raises on the listing `stream`
OutcomeOn(stream) ==
    IF created.op = "create_item"
    THEN create_item(stream, created.collection, REFERENCE, VALID_1,
                     PROTOCOL, BUCKET, FALSE)
    ELSE create_items_for_reference_time(stream, created.collection,
                                         REFERENCE, PROTOCOL, BUCKET, FALSE)

\* C16 as stated: a listed key that does not match the pattern makes the
\* whole call fail.
C16_NoPartialSuccess ==
    (Called /\ \E i \in 1..Len(Listed) : ~Matches(Listed[i]))
        => created.outcome.kind = "raise"

\* C16, amended: a listed key that does not match the pattern is skipped
\* and the call goes on with the keys after it: the call returns or raises
\* what it returns or raises on the listing without the keys that do not
\* match.
C16_NonMatchingKeysAreSkipped ==
    Called => created.outcome = OutcomeOn(<<SelectSeq(Listed, Matches)>>)

\* a key that does not match is listed before a file that has its asset
SkippedBeforeAssembled(e) ==
    \E i, j \in DOMAIN e :
        /\ i < j
        /\ ~e[i].captures.matched
        /\ e[j].accepted
        /\ \E n \in 1..Len(Items) :
               \E k \in 1..Len(Items[n].assets) :
                   Items[n].assets[k].value.href = AssetHref(e[j].path)

\* a key that does not match, listed before a file that is assembled
C16_Witness == Created /\ SkippedBeforeAssembled(Entries)

\* the datetime and the horizon of every item are those of the first
\* accepted entry of its group
FieldsOfFirstDescriptor(e) ==
    \A n \in 1..Len(Items) :
        LET first == e[FirstOf(e, Items[n].id)].captures
        IN  /\ Return(Items[n].datetime) = strptime(first.valid_time)
            /\ Items[n].properties["forecast:horizon"]
                   = first.forecast_horizon

\* C17: the datetime and the forecast:horizon of an item are those of the
\* first accepted entry of its group in listing order, also when a later
\* entry has overwritten the asset under the variable of that first entry.
C17_FieldsOfFirstDescriptor == Created => FieldsOfFirstDescriptor(Entries)

\* the accepted entries an asset may have been built from
EntriesOf(e, asset) ==
    {i \in AcceptedEntries(e) : AssetHref(e[i].path) = asset.href}

\* the files of the assets of one item have one reference_time and one
\* valid_time, those of the id of the item
HomogeneousGroups(e) ==
    \A n \in 1..Len(Items) :
        \A k, l \in 1..Len(Items[n].assets) :
            \A i \in EntriesOf(e, Items[n].assets[k].value),
               j \in EntriesOf(e, Items[n].assets[l].value) :
                /\ e[i].captures.reference_time = e[j].captures.reference_time
                /\ e[i].captures.valid_time = e[j].captures.valid_time
                /\ Items[n].id = e[i].item_id
                /\ ~Has(e[i].captures.valid_time, DASH)

\* C18: two accepted entries are put into the same item only when their
\* reference_time captures are equal and their valid_time captures are
\* equal: the item_id of an item splits in one way only into the two
\* captures, since a valid_time capture holds no "-".
C18_GroupHomogeneity == Created => HomogeneousGroups(Entries)

\* two files of one valid time and variable under two reference times, the
\* second with a "-" in the directory name, are the two items
TwoReferenceTimes(e) ==
    \E i, j \in AcceptedEntries(e) :
        /\ e[i].captures.valid_time = e[j].captures.valid_time
        /\ e[i].captures.variable = e[j].captures.variable
        /\ e[i].captures.reference_time # e[j].captures.reference_time
        /\ Has(e[j].captures.reference_time, DASH)
        /\ Items[1].id = e[i].item_id
        /\ Items[2].id = e[j].item_id

\* two files of one valid time and variable under two reference-time
\* directories, one of them with a "-" in its name: two items
C18_Witness == Created /\ Len(Items) = 2 /\ TwoReferenceTimes(Entries)

\* the entries of the listing that match the pattern and have the valid
\* time that is asked for
Candidates(e) == {i \in DOMAIN e : e[i].candidate}

\* a candidate with the variable has the variable among the assets of its
\* item
HoldsWhenListed(e, variable_) ==
    \A i \in Candidates(e) :
        e[i].captures.variable = variable_
            => \E n \in 1..Len(Items) :
                   Items[n].id = e[i].item_id /\ variable_ \in AssetKeys(n)

\* the items hold the variables of the collection, and those alone
CollectionVariableFilter(e, variables) ==
    /\ \A n \in 1..Len(Items) : AssetKeys(n) \subseteq variables
    /\ \A i \in Candidates(e) :
           e[i].captures.variable \in variables
               => HoldsWhenListed(e, e[i].captures.variable)
    /\ endswith(created.collection, <<DASH, "surface">>)
           => \A n \in 1..Len(Items) :
                  /\ <<"temperature_on_pressure_levels">> \notin AssetKeys(n)
                  /\ <<"cloud_amount_on_height_levels">> \notin AssetKeys(n)
    /\ endswith(created.collection, <<DASH, "height">>)
           => /\ HoldsWhenListed(e, <<"cloud_amount_on_height_levels">>)
              /\ \A n \in 1..Len(Items) :
                     AssetKeys(n) \cap PressureLevelParameters = {}
    /\ endswith(created.collection, <<DASH, "pressure">>)
           => /\ HoldsWhenListed(e, <<"temperature_on_pressure_levels">>)
              /\ \A n \in 1..Len(Items) :
                     AssetKeys(n) \cap HeightParameters = {}

\* C19: every asset key of an item created for a collection is in the
\* variable set of the collection, and every listed file whose variable is
\* in that set has its variable among the assets of its item.  A -surface
\* item holds neither temperature_on_pressure_levels nor
\* cloud_amount_on_height_levels; a -height item holds
\* cloud_amount_on_height_levels when it is listed, and no pressure-level
\* variable; a -pressure item holds temperature_on_pressure_levels when it
\* is listed, and no height-level variable.
C19_CollectionVariableFilter ==
    Created => CollectionVariableFilter(Entries, RequestedVariables.value)

\* the variables of the candidates
CandidateVariables(e) == {e[i].captures.variable : i \in Candidates(e)}

\* a height file, a pressure file and a surface file of one valid time:
\* the -height item holds the height file alone
C19_Witness ==
    /\ Created
    /\ endswith(created.collection, <<DASH, "height">>)
    /\ CandidateVariables(Entries)
           = {<<"cloud_amount_on_height_levels">>,
              <<"temperature_on_pressure_levels">>,
              <<"temperature_at_screen_level">>}
    /\ Len(Items) = 1
    /\ AssetKeys(1) = {<<"cloud_amount_on_height_levels">>}

\* the listing with the k-th and the (k+1)-th entry swapped
Swapped(listed, k) ==
    [i \in 1..Len(listed) |->
        IF i = k THEN listed[k + 1] ELSE IF i = k + 1 THEN listed[k]
        ELSE listed[i]]

\* the ids of the items of an outcome; a fault stands for itself
ItemIds(outcome) ==
    IF outcome.kind # "return" THEN outcome
    ELSE IF created.op = "create_item" THEN Return({outcome.value.id})
    ELSE Return({outcome.value[n].id : n \in 1..Len(outcome.value)})

\* the ids of the call are those of the call on the same keys in one page,
\* and those of the call on the keys with two neighbours swapped
SameIdsOnSameKeys(listed, ids) ==
    /\ ItemIds(OutcomeOn(<<listed>>)) = ids
    /\ \A k \in 1..Len(listed) - 1 :
           ItemIds(OutcomeOn(<<Swapped(listed, k)>>)) = ids

\* C21: the set of item ids of a call depends on the multiset of the listed
\* keys alone: the keys in one page give the ids of the keys in the pages
\* of the call, and so do the keys with two neighbours swapped.  Every
\* order of the keys is reached by such swaps and every cut into pages is
\* compared with the one page, so the ids are those of every order and
\* every cut; a call that fails, fails in each of them.
C21_ItemIdsOfMultiset ==
    Called => SameIdsOnSameKeys(Listed, ItemIds(created.outcome))

\* three keys of two items on two pages, the second item listed between
\* the files of the first
C21_Witness ==
    /\ Created
    /\ created.op = "create_items_for_reference_time"
    /\ Len(pages) = 2
    /\ Len(Items) = 2
    /\ Len(Items[1].assets) = 2
    /\ Listed[1] # Listed[3]

\* the item_ids of the accepted entries
AcceptedItemIds(e) == {e[i].item_id : i \in AcceptedEntries(e)}

\* every asset of the item is built from entries of the valid_time
AssetsOfValidTime(e, valid_time) ==
    \A k \in 1..Len(Items[1].assets) :
        /\ EntriesOf(e, Items[1].assets[k].value) # {}
        /\ \A i \in EntriesOf(e, Items[1].assets[k].value) :
               e[i].captures.valid_time = valid_time

\* create_item returns an item when the accepted entries of the valid_time
\* are one group, and raises the one or the other error when they are none
\* or several
SingleItem(e, valid_time) ==
    /\ Cardinality(AcceptedItemIds(e)) = 1
           => /\ Created
              /\ Items[1].id \in AcceptedItemIds(e)
              /\ AssetsOfValidTime(e, valid_time)
    /\ Cardinality(AcceptedItemIds(e)) = 0
           => created.outcome = Raise("ValueError", "No assets found")
    /\ Cardinality(AcceptedItemIds(e)) > 1
           => created.outcome = Raise("ValueError", "Expected single item")
    /\ \A i \in AcceptedEntries(e) : e[i].captures.valid_time = valid_time

\* C23: create_item returns an item only when the accepted entries whose
\* valid_time is the requested one form exactly one item_id group; every
\* asset of the item has the requested valid_time; no group raises the
\* no-assets error and more than one group raises the 'Expected single
\* item' error; an entry of another valid_time gives no asset.
C23_CreateItemSingleGroup ==
    (Called /\ created.op = "create_item")
        => SingleItem(Entries, RequestedValidTime)

\* two files of the requested valid_time under two reference times
TwoGroups(e) ==
    /\ Cardinality(AcceptedItemIds(e)) = 2
    /\ \E i \in DOMAIN e : e[i].captures.matched /\ ~e[i].candidate

\* create_item on files of the requested valid_time under two reference
\* times and a file of another valid_time: 'Expected single item'
C23_Witness ==
    /\ Called
    /\ created.op = "create_item"
    /\ TwoGroups(Entries)
    /\ created.outcome = Raise("ValueError", "Expected single item")

\* the collection path segment and the collection ids of a model
CollectionSegment(model_) ==
    IF model_ = Model_global THEN global_deterministic_10km
    ELSE uk_deterministic_2km

SixCollectionIds ==
    {<<"met", "-", "office", "-">> \o CollectionSegment(model_)
         \o <<DASH, theme_>> :
         model_ \in Model, theme_ \in {"surface", "height", "pressure"}}

ModelOfId(collection) ==
    CHOOSE model_ \in Model :
        \E theme_ \in {"surface", "height", "pressure"} :
            collection = <<"met", "-", "office", "-">>
                \o CollectionSegment(model_) \o <<DASH, theme_>>

ListedPrefix(collection, reference_time) ==
    CollectionSegment(ModelOfId(collection)) \o <<SLASH>>
        \o <<Stamps[reference_time.day + 1][reference_time.hour + 1]>>

\* C24: for each of the six collection ids
\* met-office-<model>-deterministic-<res>-<surface|height|pressure>,
\* create_item and create_items_for_reference_time list the prefix
\* <model>-deterministic-<res>/<reference_time as yyyyMMddTHHmmZ>, whose
\* first segment is the collection segment that the classifier maps to the
\* model, and both functions derive the same prefix.
C24_ListingPrefix ==
    Called =>
        /\ created.collection \in SixCollectionIds
               => created.key_prefix
                      = ListedPrefix(created.collection, REFERENCE)
        /\ \A collection \in SixCollectionIds,
              reference_time \in [day : 0..1, hour : 0..2] :
               /\ key_prefix(collection, reference_time)
                      = ListedPrefix(collection, reference_time)
               /\ key_prefix_for_reference_time(collection, reference_time)
                      = key_prefix(collection, reference_time)
               /\ parse_model(CollectionSegment(ModelOfId(collection)))
                      = Return(ModelOfId(collection))

\* create_items_for_reference_time of the uk pressure collection listed
\* uk-deterministic-2km/<reference_time> and made an item of the keys
C24_Witness ==
    /\ Created
    /\ created.op = "create_items_for_reference_time"
    /\ created.collection \in SixCollectionIds
    /\ ModelOfId(created.collection) = Model_uk
    /\ created.key_prefix = uk_deterministic_2km \o <<SLASH>> \o strftime(REFERENCE)
    /\ Len(Items) = 1

\* the extent and the projection of the items of a model
ItemFieldsOfModel(item, model_) ==
    IF model_ = Model_global
    THEN /\ item.bbox = GLOBAL_BBOX
         /\ item.geometry = GLOBAL_GEOMETRY
         /\ item.proj = <<>>
    ELSE /\ item.bbox = UK_BBOX
         /\ item.geometry = UK_GEOMETRY
         /\ dict_keys(item.proj)
                = {"proj:geometry", "proj:bbox", "proj:wkt2"}
         /\ dict_get(item.proj, "proj:geometry") = UK_PROJECTED_GEOMETRY
         /\ dict_get(item.proj, "proj:bbox") = UK_PROJECTED_BBOX
         /\ dict_get(item.proj, "proj:wkt2") = UK_PROJECTED_CRS_WKT2

\* C25: every item of a global collection has the global bbox and geometry
\* and no projection extension, every item of a uk collection has the uk
\* bbox and geometry and the projection extension with the uk projected
\* geometry, bbox and CRS; on each of the six collection ids exactly one of
\* "global" in collection and "uk" in collection holds.
C25_FieldsOfModel ==
    /\ (Created /\ created.collection \in SixCollectionIds)
           => \A n \in 1..Len(Items) :
                  ItemFieldsOfModel(Items[n], ModelOfId(created.collection))
    /\ \A collection \in SixCollectionIds :
           /\ Has(collection, "global") # Has(collection, "uk")
           /\ Has(collection, "global")
                  <=> ModelOfId(collection) = Model_global

\* two items of the uk pressure collection
C25_Witness ==
    /\ Created
    /\ created.collection \in SixCollectionIds
    /\ ModelOfId(created.collection) = Model_uk
    /\ Len(Items) = 2
    /\ Items[1].proj # <<>>
    /\ Items[2].bbox = UK_BBOX

\* entries i and j are files of one item that differ in the duration suffix
\* alone
DifferInDuration(e, i, j) ==
    /\ e[i].accepted
    /\ e[j].accepted
    /\ e[i].captures.duration # None
    /\ e[j].captures.duration # None
    /\ e[i].captures.duration # e[j].captures.duration
    /\ [e[i].captures EXCEPT !.duration = None]
           = [e[j].captures EXCEPT !.duration = None]

\* the items that hold an asset whose href is the one of a listed path
ItemsOfPath(path) ==
    {n \in 1..Len(Items) :
        \E k \in 1..Len(Items[n].assets) :
            Items[n].assets[k].value.href = AssetHref(path)}

\* of two files that differ in the duration suffix alone, the later being
\* the last file of the variable, the item holds the later one under the
\* variable and the earlier one nowhere
LaterDurationWins(e) ==
    \A i, j \in DOMAIN e :
        (/\ i < j
         /\ DifferInDuration(e, i, j)
         /\ j = Max(SameKey(e, e[j].item_id, e[j].captures.variable)))
            => /\ Cardinality({n \in 1..Len(Items) :
                                  Items[n].id = e[j].item_id}) = 1
               /\ \A n \in 1..Len(Items) :
                      Items[n].id = e[j].item_id
                          => LET of == {k \in 1..Len(Items[n].assets) :
                                           Items[n].assets[k].key
                                               = e[j].captures.variable}
                             IN  /\ Cardinality(of) = 1
                                 /\ \A k \in of :
                                        LET asset == Items[n].assets[k].value
                                        IN  /\ asset.href
                                                   = AssetHref(e[j].path)
                                            /\ asset.extra_fields
                                                   ["forecast:duration"]
                                                   = e[j].captures.duration
               /\ ItemsOfPath(e[i].path) = {}

\* C26: two accepted keys of one item that differ only in the duration
\* suffix (precipitation_accumulation-PT01H and -PT03H) have the same asset
\* key; the item holds one asset for them, the one of the later file, with
\* its href and its forecast:duration, and the earlier file is in no item.
C26_OneAssetOfTwoDurations == Created => LaterDurationWins(Entries)

\* the PT01H file and then the PT03H file of one item: one asset, PT03H
C26_Witness ==
    /\ Created
    /\ Len(Listed) = 2
    /\ DifferInDuration(Entries, 1, 2)
    /\ Len(Items) = 1
    /\ Len(Items[1].assets) = 1
    /\ Items[1].assets[1].key = <<"precipitation_accumulation">>
    /\ Items[1].assets[1].value.extra_fields["forecast:duration"] = <<"PT03H">>

\* the parse of the href of an asset gives the protocol and the bucket of
\* the call and the valid_time and the horizon of the listed path
SameCaptures(again, first) ==
    /\ again.matched
    /\ again.protocol = PROTOCOL
    /\ again.bucket = BUCKET
    /\ again.valid_time = first.valid_time
    /\ again.forecast_horizon = first.forecast_horizon

\* every asset of every item is parsed again as its path was parsed when
\* listed, and the datetime of the item is the valid_time of its id
ParsedAgainAsListed(e) ==
    \A n \in 1..Len(Items) : \A k \in 1..Len(Items[n].assets) :
        LET asset_href == Items[n].assets[k].value.href
            of == {i \in AcceptedEntries(e) :
                      AssetHref(e[i].path) = asset_href}
        IN  /\ of # {}
            /\ \A i \in of :
                   /\ e[i].captures.protocol = None
                   /\ SameCaptures(PATH_PATTERN_match(asset_href),
                                   e[i].captures)
                   /\ Items[n].id
                          = e[i].captures.reference_time \o <<DASH>>
                                \o strftime(Items[n].datetime)

\* C27: for every group built from listed paths without a scheme prefix,
\* the parse of the asset href <protocol>://<bucket>/<path> in
\* _create_item_from_assets succeeds with the valid_time and the
\* forecast_horizon of the parse of <path> at listing time, and the datetime
\* of the item is the valid_time part of its id.
C27_ReparseConsistency ==
    /\ Called => created.outcome # Raise("ValueError", "could not parse")
    /\ Created => ParsedAgainAsListed(Entries)

\* two items made of files of two valid times, each with its own datetime
C27_Witness ==
    /\ Created
    /\ Len(Items) = 2
    /\ Items[1].datetime # Items[2].datetime
    /\ strftime(Items[1].datetime)
           = PATH_PATTERN_match(Items[1].assets[1].value.href).valid_time
    /\ PATH_PATTERN_match(Items[1].assets[1].value.href).bucket = BUCKET

\* the theme under which ITEM_ASSETS holds a name is the theme
\* Theme.from_parameter gives it, and the theme of the descriptor that is
\* parsed without a theme hint
ThemeOfItemAssets(parameter) ==
    LET returned == from_parameter(parameter)
    IN  \A model_ \in Model, theme_ \in Theme :
            parameter \in ITEM_ASSETS[model_][theme_]
                => /\ returned = Return(theme_)
                   /\ (parsed.kind = "return" /\ theme = None)
                          => parsed.value.theme = theme_

\* C29: for every model m, theme t and key k of ITEM_ASSETS[m][t],
\* Theme.from_parameter(k) returns t.
C29_ItemAssetsThemes ==
    LET m == matches
    IN  (parsed # NotCalled /\ m.matched) => ThemeOfItemAssets(m.parameter)

\* a key of ITEM_ASSETS[Model.uk][Theme.whole_atmosphere], parsed without
\* hints
C29_Witness ==
    /\ parsed.kind = "return"
    /\ model = None
    /\ theme = None
    /\ parsed.value.parameter
           = <<"lightning_flash_accumulation", "-", "PT01H">>
    /\ parsed.value.parameter
           \in ITEM_ASSETS[Model_uk][Theme_whole_atmosphere]
    /\ parsed.value.theme = Theme_whole_atmosphere

\* C30: Theme.from_parameter accepts a parameter exactly when Href.variable
\* of it is not None, so every descriptor that is parsed without a theme
\* hint has a standard name.
C30_ThemeIffStandardName ==
    LET m == matches
    IN  /\ (parsed # NotCalled /\ m.matched)
               => (from_parameter(m.parameter).kind = "return"
                       <=> variable([parameter |-> m.parameter])
                               # Return(None))
        /\ (parsed.kind = "return" /\ theme = None)
               => variable(parsed.value) # Return(None)
        /\ (parsed.kind = "return" /\ theme = None /\ prop.kind = "read"
                /\ prop.name = "variable")
               => prop.outcome # Return(None)

\* the standard name of a descriptor parsed without a theme hint is read
C30_Witness ==
    /\ parsed.kind = "return"
    /\ theme = None
    /\ parsed.value.parameter = <<"cloud_amount_on_height_levels">>
    /\ prop.kind = "read"
    /\ prop.name = "variable"
    /\ prop.outcome = variable(parsed.value)
    /\ prop.outcome # Return(None)

\* the names of the parameters of a signature, in order
Names(signature) == [i \in 1..Len(signature) |-> signature[i].name]

\* the method of the provider a command calls
MethodOf(command) ==
    CASE command = "create-collection" -> "create_collection"
      [] command = "create-item" -> "create_item"
      [] command = "create-items" -> "create_items"

\* a sequence of names without the name "format"
RECURSIVE WithoutFormat(_)
WithoutFormat(names) ==
    IF names = <<>> THEN <<>>
    ELSE IF Head(names) = "format" THEN WithoutFormat(Tail(names))
    ELSE <<Head(names)>> \o WithoutFormat(Tail(names))

\* the signature of a command: the parameters of the provider's method,
\* then the options output, verbose, quiet and log_file, and the format
\* option, with default ndjson, for create-items alone
CommandTakes(command, signature) ==
    LET provider_params == inspect_signature(MethodOf(command))
        options == SubSeq(signature, Len(provider_params) + 1, Len(signature))
        formats == {i \in 1..Len(options) : options[i].name = "format"}
    IN  /\ Len(signature) >= Len(provider_params)
        /\ SubSeq(signature, 1, Len(provider_params)) = provider_params
        /\ WithoutFormat(Names(options))
               = <<"output", "verbose", "quiet", "log_file">>
        /\ IF command = "create-items"
           THEN /\ Cardinality(formats) = 1
                /\ \A i \in formats : options[i].default = "ndjson"
           ELSE formats = {}

\* a run takes the format option for create-items alone, one of ndjson and
\* geojson, and ndjson when none is given
RunTakesFormat(run) ==
    /\ "format" \in run.args.given
           => IF run.command # "create-items"
              THEN run.outcome = Raise("UsageError", "No such option")
              ELSE IF run.args.format \in OutputFormat
              THEN run.outcome.kind = "raise"
                       => run.outcome.exc # "UsageError"
              ELSE run.outcome = Raise("UsageError", "Invalid value")
    /\ "format" \notin run.args.given
           => /\ run.outcome.kind = "raise" => run.outcome.exc # "UsageError"
              /\ run.command = "create-items" => run.args.format = "ndjson"

\* C22: the app has the commands create-collection, create-item and
\* create-items; each takes the parameters of the provider's method followed
\* by the options output, verbose, quiet and log_file; the format option
\* (ndjson or geojson, default ndjson) is taken by create-items only, and
\* registering create-items adds it to no signature built before.
C22_CommandSignatures ==
    /\ cli.pc # "raised"
    /\ cli.pc = "create-items"
           => dict_keys(cli.commands)
                  = {"create-collection", "create-item", "create-items"}
    /\ \A command \in dict_keys(cli.commands) :
           CommandTakes(command, dict_get(cli.commands, command))
    /\ cli.run.kind = "ran" => RunTakesFormat(cli.run)

\* the app is built, create-items has the format option, and create-item,
\* run with --format, ends with a usage error
C22_Witness ==
    /\ cli.pc = "create-items"
    /\ Names(dict_get(cli.commands, "create-items"))
           = <<"collection", "reference_time", "storage_protocol",
               "storage_bucket", "storage_region", "output", "format",
               "verbose", "quiet", "log_file">>
    /\ cli.run.kind = "ran"
    /\ cli.run.command = "create-item"
    /\ "format" \in cli.run.args.given
    /\ cli.run.outcome = Raise("UsageError", "No such option")

\* the outcome of _create_item_from_assets for every group of the listing
BuiltItems(grouped, collection) ==
    IF grouped.kind = "raise" THEN <<>>
    ELSE items_from_collected(grouped.value, collection, REFERENCE, FALSE)

\* when grouping raised or an item could not be built the call raised,
\* nothing was yielded and nothing was printed or written; otherwise the
\* items of the list were yielded
AllOrNothing(run, grouped, built, returned) ==
    IF grouped.kind = "raise"
           \/ \E i \in 1..Len(built) : built[i].kind = "raise"
    THEN /\ returned.kind = "raise"
         /\ run.yielded = <<>>
         /\ run.outcome = returned
         /\ run.stdout = <<>>
         /\ run.file = <<>>
    ELSE /\ returned.kind = "return"
         /\ run.yielded = returned.value
         /\ run.outcome = Return(None)

\* the run of create-items on the listing of the state
AllOrNothingOn(run, stream, variables) ==
    LET collection == run.args.collection
        grouped == collect_assets(stream, variables, PROTOCOL, BUCKET, None)
    IN  AllOrNothing(run, grouped, BuiltItems(grouped, collection),
                     create_items_for_reference_time(
                         stream, collection, REFERENCE, PROTOCOL, BUCKET,
                         FALSE))

\* the command create-items ran and its options were accepted
CreateItemsRan ==
    /\ cli.run.kind = "ran"
    /\ cli.run.command = "create-items"
    /\ cli.run.outcome.kind = "raise" => cli.run.outcome.exc # "UsageError"

\* C28: if grouping or building any one item raises,
\* create_items_for_reference_time returns no items,
\* MetOfficeSTACProvider.create_items yields no item before the error
\* reaches the caller, and the command writes no item output.
C28_AllOrNothing ==
    CreateItemsRan
        => AllOrNothingOn(
               cli.run,
               obstore_list_prefix(
                   pages,
                   key_prefix_for_reference_time(cli.run.args.collection,
                                                 REFERENCE)),
               get_collection_variables(cli.run.args.collection).value)

\* the first item of the listing is built and the second one is not
SecondItemFails(built) ==
    /\ Len(built) = 2
    /\ built[1].kind = "return"
    /\ built[2].kind = "raise"

\* create-items on a file of a valid time and then a file whose valid time
\* is no time: the call raised, nothing was yielded or printed
C28_Witness ==
    /\ CreateItemsRan
    /\ SecondItemFails(
           BuiltItems(
               collect_assets(
                   obstore_list_prefix(
                       pages,
                       key_prefix_for_reference_time(
                           cli.run.args.collection, REFERENCE)),
                   get_collection_variables(cli.run.args.collection).value,
                   PROTOCOL, BUCKET, None),
               cli.run.args.collection))
    /\ cli.run.outcome.kind = "raise"
    /\ cli.run.yielded = <<>>
    /\ cli.run.stdout = <<>>

\* C20: the forecast:variable of an asset is the CF-standard name that
\* Href.variable looks up for the variable of the file, and the field is
\* left out when the lookup has no name for it.
C20_ForecastVariableIsStandardName ==
    (Accepted /\ matches.matched)
        => \A assets \in CollectedAssets :
               \A k \in dict_keys(assets) :
                   LET extra_fields == dict_get(assets, k).extra_fields
                       name == variable([parameter |-> Seg]).value
                   IN  IF name = None
                       THEN "forecast:variable" \notin DOMAIN extra_fields
                       ELSE extra_fields["forecast:variable"] = name

=============================================================================
